---- MODULE Spec2Model ----
(***************************************************************************)
(* Verification model of the sentiment pipeline: the processing ledger     *)
(* (state_tracker.py), the analysis engine and its request handlers        *)
(* (unified_app.py) and the scorer's pure functions (finbert_analyzer.py,  *)
(* sentiment_app.py).                                                      *)
(*                                                                         *)
(* Numbers that are floats in the source are integers here: a value v of   *)
(* the source is the integer 1000 * v ("thousandths") unless said          *)
(* otherwise.  A Python dict is a function whose DOMAIN is the set of its  *)
(* keys; None is the empty sequence and a present value v is <<v>>.        *)
(***************************************************************************)
EXTENDS Integers, Sequences, FiniteSets, TLC

VARIABLES
    state,              \* StateTracker.state (the ledger)
    clock,              \* datetime.now(), one tick per top-level operation
    lastOp,             \* the last ledger operation called, with its arguments
    processing_status,  \* the global processing_status dict of unified_app.py
    dataset,            \* the rows of the 'Quarterly Sentiment' sheet of OUTPUT_FILE
    batch,              \* CompanyManager.get_nse_codes()
    world,              \* what the locator and the extractor return per company
    pc,                 \* per request thread: where its handler stands
    run,                \* per request thread: the locals of its handler
    response,           \* per request thread: the last HTTP status it returned
    completed,          \* companies a run without force has gone through since the ledger was last cleared
    lastResult,         \* per request thread: what its last finished run reported
    lastFlush,          \* the last save_results call: the rows on disk before it, and its batch
    call,               \* the function of the analyzer or the locator under evaluation, with its arguments
    frame,              \* the local variables of that function while it runs
    ret,                \* its return value once it has returned, None before
    company_mgr         \* the CompanyManager: custom_companies and its lookup indices

ledgerVars == <<state, clock, lastOp>>
engineVars == <<processing_status, dataset, batch, world, pc, run, response,
                completed, lastResult, lastFlush>>

callVars == <<call, frame, ret>>

vars == <<state, clock, lastOp, processing_status, dataset, batch, world, pc, run,
          response, completed, lastResult, lastFlush, call, frame, ret, company_mgr>>

(***************************************************************************)
(* Bounds of the model.                                                    *)
(***************************************************************************)
MaxClock == 3
MaxBatchItems == 2

(***************************************************************************)
(* Python helpers.                                                         *)
(***************************************************************************)
None == <<>>
Some(v) == <<v>>

EmptyDict == <<>>

\* No function of the analyzer or the locator is under evaluation.
NoCall == [fn |-> "none"]
NoFrame == <<>>
DictSet(d, k, v) == [x \in (DOMAIN d) \cup {k} |-> IF x = k THEN v ELSE d[x]]
DictDel(d, k) == [x \in (DOMAIN d) \ {k} |-> d[x]]

\* The company identifiers a caller may pass, in the spellings it may use.
CompanyNames == {"TCS", "tcs", "INFY", "infy"}

\* str.upper()
upper(s) ==
    CASE s = "tcs" -> "TCS"
      [] s = "infy" -> "INFY"
      [] s \in {"acme", "Acme"} -> "ACME"
      [] s = "Infosys" -> "INFOSYS"
      [] s = "Tata Consultancy" -> "TATA CONSULTANCY"
      [] s = "Unlisted" -> "UNLISTED"
      [] OTHER -> s

Months == <<"Jan", "Feb", "Mar", "Apr", "May", "Jun",
            "Jul", "Aug", "Sep", "Oct", "Nov", "Dec">>

\* f"{month}_{year}": the quarter key of the remote path, kept as its parts.
QuarterKey(month, year) == <<month, "_", year>>

Quarters == {QuarterKey("Jan", "2024"), QuarterKey("Apr", "2024")}

\* f"{date_info['month']} {date_info['year']}": the quarter key that
\* get_local_transcripts gives a local file
LocalQuarterKey(month, year) == <<month, " ", year>>

LocalQuarters == {LocalQuarterKey("Jan", "2024"), LocalQuarterKey("Apr", "2024")}

AllQuarters == Quarters \cup LocalQuarters

NoMetadata == EmptyDict

(***************************************************************************)
(* StateTracker (state_tracker.py).                                        *)
(***************************************************************************)
EmptyState ==
    [processed |-> EmptyDict,
     last_full_run |-> None,
     last_incremental_run |-> None,
     stats |-> [total_processed |-> 0, total_companies |-> 0]]

is_processed(st, company, quarter) ==
    LET cu == upper(company)
        company_state == IF cu \in DOMAIN st.processed
                         THEN st.processed[cu] ELSE EmptyDict
    IN quarter \in DOMAIN company_state

RECURSIVE SumLen(_, _)
\* sum(len(quarters) for quarters in processed.values())
SumLen(processed, keys) ==
    IF keys = {} THEN 0
    ELSE LET k == CHOOSE x \in keys : TRUE
         IN Cardinality(DOMAIN processed[k]) + SumLen(processed, keys \ {k})

update_stats(st) ==
    [st EXCEPT !.stats =
        [total_processed |-> SumLen(st.processed, DOMAIN st.processed),
         total_companies |-> Cardinality(DOMAIN st.processed)]]

\* UpsertEntry keyed by the company as spelled by the caller, not upper-cased.
UpsertEntryNoUpper(processed, company, quarter, metadata, now) ==
    LET p1 == IF company \in DOMAIN processed THEN processed
              ELSE DictSet(processed, company, EmptyDict)
    IN DictSet(p1, company, DictSet(p1[company], quarter,
                                    [timestamp |-> now, metadata |-> metadata]))

\* The upsert both mark operations perform for one item.
UpsertEntry(processed, company, quarter, metadata, now) ==
    LET cu == upper(company)
        p1 == IF cu \in DOMAIN processed THEN processed
              ELSE DictSet(processed, cu, EmptyDict)
    IN DictSet(p1, cu, DictSet(p1[cu], quarter,
                               [timestamp |-> now, metadata |-> metadata]))

\* the ledger left as it was
mark_forgotten(st, company, quarter, metadata, now) == st

mark_processed(st, company, quarter, metadata, now) ==
    update_stats([st EXCEPT !.processed =
        UpsertEntry(st.processed, company, quarter, metadata, now)])

RECURSIVE UpsertAll(_, _, _)
UpsertAll(processed, items, now) ==
    IF items = <<>> THEN processed
    ELSE UpsertAll(UpsertEntry(processed, items[1][1], items[1][2], items[1][3], now),
                   Tail(items), now)

mark_batch_processed(st, items, now) ==
    update_stats([st EXCEPT !.processed = UpsertAll(st.processed, items, now)])

\* clear_company without its call of _update_stats.
clear_company_stale_stats(st, company) ==
    LET cu == upper(company)
    IN IF cu \in DOMAIN st.processed
       THEN [st EXCEPT !.processed = DictDel(st.processed, cu)]
       ELSE st

clear_company(st, company) ==
    LET cu == upper(company)
    IN IF cu \in DOMAIN st.processed
       THEN update_stats([st EXCEPT !.processed = DictDel(st.processed, cu)])
       ELSE st

clear_all(st) == EmptyState

record_run(st, run_type, run_stats, now) ==
    IF run_type = "full"
    THEN [st EXCEPT !.last_full_run =
            Some([timestamp |-> now, stats |-> run_stats])]
    ELSE [st EXCEPT !.last_incremental_run =
            Some([timestamp |-> now, stats |-> run_stats])]

InitLedger ==
    /\ state = EmptyState
    /\ clock = 0
    /\ lastOp = [op |-> "init", company |-> "", items |-> <<>>]

(***************************************************************************)
(* CompanyManager (company_manager.py).  The static entries are the rows   *)
(* of nse-500-stocks.csv, the custom ones the list kept in                 *)
(* custom_companies.json.  An optional argument is None or Some(text); a   *)
(* code is falsy when it is None or the empty text.                        *)
(***************************************************************************)
MaxCustom == 2

\* The rows of nifty500_df after _load_nifty500, each cell as
\* str(row[...]).strip() gives it: two companies listed on both exchanges
\* and one without an NSE code (fillna('')).
Nifty500 ==
    <<[Name |-> "Tata Consultancy", NSE_Code |-> "TCS", BSE_Code |-> "532540",
       Industry |-> "IT", Market_Capitalization |-> 0],
      [Name |-> "Infosys", NSE_Code |-> "INFY", BSE_Code |-> "500209",
       Industry |-> "IT", Market_Capitalization |-> 0],
      [Name |-> "Unlisted", NSE_Code |-> "", BSE_Code |-> "500002",
       Industry |-> "Unknown", Market_Capitalization |-> 0]>>

\* bool(x) of an optional text
truthy(opt) == opt # None /\ opt[1] # ""

\* code.lower() == 'nan'
is_nan(code) == code \in {"nan", "NaN", "NAN"}

\* the info dict _build_indices makes of a row of nifty500_df
StaticInfo(row) ==
    [name |-> row.Name, nse_code |-> row.NSE_Code, bse_code |-> row.BSE_Code,
     industry |-> row.Industry, market_cap |-> row.Market_Capitalization,
     source |-> "nifty500"]

\* the info dict _build_indices makes of an element of custom_companies
CustomInfo(company) ==
    [name |-> company.name, nse_code |-> company.nse_code,
     bse_code |-> company.bse_code, industry |-> company.industry,
     market_cap |-> company.market_cap, source |-> "custom"]

NoIndices == [nse_to_info |-> EmptyDict, bse_to_info |-> EmptyDict,
              name_to_info |-> EmptyDict]

\* One iteration of a loop of _build_indices: info is entered under its NSE
\* code, its BSE code and its name; a later entry replaces an earlier one.
IndexInfo(idx, info) ==
    LET listed(code) == code # "" /\ (info.source = "nifty500" => ~is_nan(code))
    IN [nse_to_info |-> IF listed(info.nse_code)
                        THEN DictSet(idx.nse_to_info, upper(info.nse_code), info)
                        ELSE idx.nse_to_info,
        bse_to_info |-> IF listed(info.bse_code)
                        THEN DictSet(idx.bse_to_info, info.bse_code, info)
                        ELSE idx.bse_to_info,
        name_to_info |-> IF info.name # ""
                         THEN DictSet(idx.name_to_info, upper(info.name), info)
                         ELSE idx.name_to_info]

RECURSIVE IndexAll(_, _, _)
IndexAll(idx, infos, n) ==
    IF n > Len(infos) THEN idx
    ELSE IndexAll(IndexInfo(idx, infos[n]), infos, n + 1)

\* CompanyManager._build_indices: the static rows first, then the custom
\* entries over them.
build_indices(nifty500_df, custom_companies) ==
    IndexAll(IndexAll(NoIndices,
                      [n \in DOMAIN nifty500_df |-> StaticInfo(nifty500_df[n])], 1),
             [n \in DOMAIN custom_companies |-> CustomInfo(custom_companies[n])], 1)

\* The manager: custom_companies and the three indices (nifty500_df never
\* changes after __init__).
Manager(custom_companies) ==
    LET idx == build_indices(Nifty500, custom_companies)
    IN [custom_companies |-> custom_companies,
        nse_to_info |-> idx.nse_to_info,
        bse_to_info |-> idx.bse_to_info,
        name_to_info |-> idx.name_to_info]

\* CompanyManager.__init__ with no custom_companies.json
NewManager == Manager(<<>>)

DictGet(d, k) == IF k \in DOMAIN d THEN Some(d[k]) ELSE None

get_company_by_nse(mgr, nse_code) == DictGet(mgr.nse_to_info, upper(nse_code))
get_company_by_bse(mgr, bse_code) == DictGet(mgr.bse_to_info, bse_code)
get_company_by_name(mgr, name) == DictGet(mgr.name_to_info, upper(name))

get_company(mgr, identifier) ==
    IF get_company_by_nse(mgr, identifier) # None
    THEN get_company_by_nse(mgr, identifier)
    ELSE IF get_company_by_bse(mgr, identifier) # None
    THEN get_company_by_bse(mgr, identifier)
    ELSE get_company_by_name(mgr, identifier)

Failure == [success |-> FALSE, company |-> None]

\* CompanyManager.add_custom_company; on_screener is what
\* validate_on_screener returns if it is called.  The manager after the
\* call and the result dict.
add_custom_company(mgr, name, nse_code, bse_code, industry, market_cap, validate, on_screener) ==
    IF name = "" THEN [mgr |-> mgr, result |-> Failure]
    ELSE IF ~truthy(nse_code) /\ ~truthy(bse_code) THEN [mgr |-> mgr, result |-> Failure]
    ELSE IF truthy(nse_code) /\ upper(nse_code[1]) \in DOMAIN mgr.nse_to_info
    THEN [mgr |-> mgr, result |-> Failure]
    ELSE IF validate /\ truthy(nse_code) /\ ~on_screener
    THEN [mgr |-> mgr, result |-> Failure]
    ELSE LET company == [name |-> name,
                         nse_code |-> IF truthy(nse_code) THEN upper(nse_code[1]) ELSE "",
                         bse_code |-> IF truthy(bse_code) THEN bse_code[1] ELSE "",
                         industry |-> industry,
                         market_cap |-> market_cap]
         IN [mgr |-> Manager(Append(mgr.custom_companies, company)),
             result |-> [success |-> TRUE, company |-> Some(company)]]

\* [c for c in self.custom_companies if c.get('nse_code', '').upper() != nse_upper]
Remaining(custom_companies, nse_upper) ==
    SelectSeq(custom_companies, LAMBDA c : upper(c.nse_code) # nse_upper)

\* the removal with the indices left as they were
remove_keeping_indices(mgr, nse_code) ==
    LET kept == Remaining(mgr.custom_companies, upper(nse_code))
    IN [mgr |-> [mgr EXCEPT !.custom_companies = kept],
        result |-> IF Len(kept) < Len(mgr.custom_companies)
                   THEN [success |-> TRUE, company |-> None] ELSE Failure]

\* CompanyManager.remove_custom_company
remove_custom_company(mgr, nse_code) ==
    LET kept == Remaining(mgr.custom_companies, upper(nse_code))
    IN IF Len(kept) < Len(mgr.custom_companies)
       THEN [mgr |-> Manager(kept), result |-> [success |-> TRUE, company |-> None]]
       ELSE [mgr |-> [mgr EXCEPT !.custom_companies = kept], result |-> Failure]

(***************************************************************************)
(* The durable dataset: the rows of OUTPUT_FILE (unified_app.py).          *)
(*                                                                         *)
(* A cell of the Year column is a text cell or a number cell: a row built  *)
(* by analyze_company carries the year as the str the locator matched,     *)
(* and pd.read_excel infers the column's type on load, so a column of     *)
(* numeric text comes back as integers.                                    *)
(***************************************************************************)
StrYear(y) == [type |-> "str", value |-> y]
IntYear(y) == [type |-> "int", value |-> y]

\* int(text) of a year the locator matched
YearValue(year) ==
    CASE year = "2023" -> 2023
      [] year = "2024" -> 2024
      [] OTHER -> 0

\* pd.read_excel(OUTPUT_FILE, sheet_name='Quarterly Sentiment')
read_excel(rows) ==
    [n \in DOMAIN rows |-> [rows[n] EXCEPT !.Year = IntYear(rows[n].Year.value)]]

load_existing_data(rows) == read_excel(rows)

\* (row['Company'], row['Year'], row['Month']), compared as Python compares it
RowKey(r) == <<r.Company, r.Year, r.Month>>

PositiveThreshold == 200
NegativeThreshold == -100

sentiment_category(x) ==
    IF x > PositiveThreshold THEN "Positive"
    ELSE IF x < NegativeThreshold THEN "Negative" ELSE "Neutral"

\* final_df['Month'].map(month_map); 0 stands for NaN
MonthNum(m) ==
    IF \E n \in DOMAIN Months : Months[n] = m
    THEN CHOOSE n \in DOMAIN Months : Months[n] = m
    ELSE 0

\* the order of Python str comparison on the company codes of the model
CompanyRank(c) ==
    CASE c = "INFY" -> 1
      [] c = "TCS" -> 2
      [] c = "infy" -> 3
      [] c = "tcs" -> 4
      [] OTHER -> 5

\* pandas orders a column of mixed cells with the numbers before the text
YearRank(y) == IF y.type = "str" THEN 10000 + y.value ELSE y.value

\* sort_values(['Company', 'Year', 'Month_Num'], ascending=[True, False, False]):
\* a sorts strictly before b (NaN months last)
SortsBefore(a, b) ==
    \/ CompanyRank(a.Company) < CompanyRank(b.Company)
    \/ /\ CompanyRank(a.Company) = CompanyRank(b.Company)
       /\ \/ YearRank(a.Year) > YearRank(b.Year)
          \/ /\ YearRank(a.Year) = YearRank(b.Year)
             /\ MonthNum(a.Month) > MonthNum(b.Month)

InsertSorted(sorted, r) ==
    LET after == {n \in DOMAIN sorted : SortsBefore(r, sorted[n])}
        at == IF after = {} THEN Len(sorted) + 1
              ELSE CHOOSE n \in after : \A m \in after : n <= m
    IN SubSeq(sorted, 1, at - 1) \o <<r>> \o SubSeq(sorted, at, Len(sorted))

\* the sort is stable
sort_values(rows) ==
    LET F[n \in 0..Len(rows)] ==
            IF n = 0 THEN <<>> ELSE InsertSorted(F[n - 1], rows[n])
    IN F[Len(rows)]

WithCategory(rows) ==
    [n \in DOMAIN rows |->
        [rows[n] EXCEPT !.Sentiment_Category = sentiment_category(rows[n].Overall_Sentiment)]]

\* AnalysisEngine.save_results(new_results, mode='append'): the rows on disk afterwards
save_results(rows, new_results) ==
    IF new_results = <<>> THEN rows
    ELSE LET existing_df == load_existing_data(rows)
             new_keys == {RowKey(new_results[n]) : n \in DOMAIN new_results}
             NotReplaced(r) == RowKey(r) \notin new_keys
             final_df == IF existing_df # <<>>
                         THEN SelectSeq(existing_df, NotReplaced) \o new_results
                         ELSE new_results
         IN sort_values(WithCategory(final_df))

(***************************************************************************)
(* The analysis engine and its request handlers (unified_app.py).          *)
(***************************************************************************)
NumThreads == 2
Threads == 1..NumThreads

SaveEvery == 10
MinWords == 100

\* What the extractor and the scorer make of a reference's document: the
\* number of words of the extracted text (0: nothing could be extracted) and
\* whether analyze_transcript raises on it.
Doc(words, raises) == [words |-> words, raises |-> raises]
Texts == {Doc(150, FALSE), Doc(99, FALSE), Doc(150, TRUE)}

\* analysis['overall_sentiment'] of a document that is scored
OverallOf(text) == 300

Transcripts(w, nse_code) ==
    IF upper(nse_code) \in DOMAIN w THEN w[upper(nse_code)] ELSE <<>>

IdleStatus ==
    [running |-> FALSE, progress |-> 0, total |-> 0, current_company |-> "",
     mode |-> "idle", start_time |-> None, logs |-> <<>>]

NoRun ==
    [kind |-> "none", nse_code |-> "", force |-> FALSE, i |-> 0, j |-> 0,
     results |-> <<>>, all_results |-> <<>>, keysBefore |-> {}, repeat |-> FALSE,
     started |-> 0, built |-> <<>>, failed_flush |-> FALSE]

NoResult ==
    [kind |-> "none", force |-> FALSE, repeat |-> FALSE, outcome |-> "none",
     companies_processed |-> 0, new_quarters |-> 0, new_keys |-> {},
     failed_flush |-> FALSE]

NoFlush == [before |-> <<>>, new_results |-> <<>>]

\* the (company, quarter) keys the ledger holds
LedgerKeys(st) ==
    {<<c, q>> \in (DOMAIN st.processed) \X AllQuarters : q \in DOMAIN st.processed[c]}

\* transcript['quarter'] as the locator of the run's kind built it
quarter_of(kind, transcript) ==
    IF kind = "local" THEN LocalQuarterKey(transcript.month, transcript.year)
    ELSE QuarterKey(transcript.month, transcript.year)

BatchSet(b) == {upper(b[n]) : n \in DOMAIN b}

\* The company the thread is analysing.
CurrentCode(t) ==
    IF run[t].kind = "single" THEN run[t].nse_code ELSE batch[run[t].i]

\* api_analyze_incremental / api_analyze_full / api_analyze_single up to the
\* test of processing_status['running'].
Request(t, kind, nse_code, force, limit) ==
    /\ pc[t] = "idle"
    /\ clock < limit
    /\ IF processing_status.running
       THEN /\ response' = [response EXCEPT ![t] = 409]
            /\ UNCHANGED <<pc, run, clock>>
       ELSE /\ response' = [response EXCEPT ![t] = 200]
            /\ pc' = [pc EXCEPT ![t] = "admitted"]
            /\ clock' = clock + 1
            /\ run' = [run EXCEPT ![t] =
                  [NoRun EXCEPT !.kind = kind, !.nse_code = nse_code,
                                !.force = force, !.started = clock']]
    /\ UNCHANGED <<state, lastOp, processing_status, dataset, batch, world,
                   completed, lastResult, lastFlush>>
    /\ UNCHANGED <<callVars, company_mgr>>

\* run_full's clear_all and the head of run_incremental (the response's
\* generator starts it), or api_analyze_single's first assignments.
StartRun(t) ==
    /\ pc[t] = "admitted"
    /\ LET r == run[t]
           cleared == r.kind = "full"
           st1 == IF cleared THEN clear_all(state) ELSE state
           done1 == IF cleared THEN {} ELSE completed
           again == /\ ~r.force
                    /\ r.kind # "full"
                    /\ IF r.kind = "single" THEN upper(r.nse_code) \in done1
                       ELSE BatchSet(batch) \subseteq done1
       IN /\ state' = st1
          /\ completed' = done1
          /\ processing_status' =
                IF r.kind = "single"
                THEN [processing_status EXCEPT !.running = TRUE, !.mode = "single",
                                               !.current_company = r.nse_code]
                ELSE [processing_status EXCEPT !.running = TRUE,
                                               !.mode = IF r.kind = "local" THEN "local"
                                                        ELSE "incremental",
                                               !.start_time = Some(r.started),
                                               !.logs = <<>>, !.total = Len(batch)]
          /\ run' = [run EXCEPT ![t] =
                [r EXCEPT !.i = 1, !.keysBefore = LedgerKeys(st1), !.repeat = again]]
          /\ pc' = [pc EXCEPT ![t] = "loop"]
    /\ UNCHANGED <<clock, lastOp, dataset, batch, world, response, lastResult, lastFlush>>
    /\ UNCHANGED <<callVars, company_mgr>>

\* The head of one iteration of run_incremental's loop and of analyze_company:
\* the status update and the locator's answer.
BeginEntity(t) ==
    /\ pc[t] = "loop"
    /\ run[t].kind = "single" \/ run[t].i <= Len(batch)
    /\ processing_status' =
          IF run[t].kind = "single" THEN processing_status
          ELSE [processing_status EXCEPT !.progress = run[t].i,
                                         !.current_company = batch[run[t].i]]
    /\ run' = [run EXCEPT ![t] = [@ EXCEPT !.j = 1, !.results = <<>>]]
    /\ pc' = [pc EXCEPT ![t] =
          IF Transcripts(world, CurrentCode(t)) = <<>> THEN "entity_done" ELSE "ref"]
    /\ UNCHANGED <<state, clock, lastOp, dataset, batch, world, response,
                   completed, lastResult, lastFlush>>
    /\ UNCHANGED <<callVars, company_mgr>>

NextRefPc(t) ==
    IF run[t].j + 1 > Len(Transcripts(world, CurrentCode(t))) THEN "entity_done" ELSE "ref"

\* analyze_company: the ledger test of one transcript.
CheckRef(t) ==
    /\ pc[t] = "ref"
    /\ LET transcript == Transcripts(world, CurrentCode(t))[run[t].j]
           quarter == quarter_of(run[t].kind, transcript)
       IN IF ~run[t].force /\ is_processed(state, CurrentCode(t), quarter)
          THEN /\ run' = [run EXCEPT ![t].j = @ + 1]
               /\ pc' = [pc EXCEPT ![t] = NextRefPc(t)]
          ELSE /\ pc' = [pc EXCEPT ![t] = "scoring"]
               /\ UNCHANGED run
    /\ UNCHANGED <<state, clock, lastOp, processing_status, dataset, batch, world,
                   response, completed, lastResult, lastFlush>>
    /\ UNCHANGED <<callVars, company_mgr>>

NewRow(nse_code, transcript, now) ==
    [Company |-> nse_code,
     Year |-> StrYear(YearValue(transcript.year)),
     Month |-> transcript.month,
     Overall_Sentiment |-> OverallOf(transcript.text),
     Analyzed_At |-> now,
     Sentiment_Category |-> ""]

\* the return value with the rows built counted, flushed or not
RunResultCountingBuilt(r, outcome, new_quarters, st) ==
    [kind |-> r.kind, force |-> r.force, repeat |-> r.repeat, outcome |-> outcome,
     companies_processed |-> IF outcome = "returned" /\ r.kind # "single"
                             THEN Len(batch) ELSE 0,
     new_quarters |-> Len(r.built), new_keys |-> LedgerKeys(st) \ r.keysBefore,
     failed_flush |-> r.failed_flush]

RunResult(r, outcome, new_quarters, st) ==
    [kind |-> r.kind, force |-> r.force, repeat |-> r.repeat, outcome |-> outcome,
     companies_processed |-> IF outcome = "returned" /\ r.kind # "single"
                             THEN Len(batch) ELSE 0,
     new_quarters |-> new_quarters, new_keys |-> LedgerKeys(st) \ r.keysBefore,
     failed_flush |-> r.failed_flush]

\* FinBERTAnalyzer.extract_pdf_from_url: every failure of the download or of
\* PyPDF2 is caught and None is returned, a text of no words.
extract_pdf_from_url(text) == {[raised |-> FALSE, words |-> text.words]}

\* LocalPDFProcessor.extract_text_from_pdf: with PyMuPDF installed every
\* exception is caught and "" is returned.  Without it the ImportError handler
\* falls back to pdfplumber, and what pdfplumber raises inside that handler
\* (on a file it cannot read) is caught by no clause and leaves the function.
extract_text_from_pdf(text) ==
    {[raised |-> FALSE, words |-> text.words]}
        \cup IF text.words = 0 THEN {[raised |-> TRUE, words |-> 0]} ELSE {}

\* analyze_company or analyze_local_company past the ledger test: extraction,
\* the word-count test, analyze_transcript, the result row and mark_processed.
\* An exception of the extractor or of analyze_transcript leaves the function:
\* run_incremental and run_local_analysis catch and log it,
\* api_analyze_single only runs its finally block.
ScoreRef(t) ==
    /\ pc[t] = "scoring"
    /\ LET r == run[t]
           nse_code == CurrentCode(t)
           transcript == Transcripts(world, nse_code)[r.j]
           quarter == quarter_of(run[t].kind, transcript)
           text == transcript.text
           metadata == [sentiment |-> OverallOf(text)]
       IN \E extracted \in IF r.kind = "local" THEN extract_text_from_pdf(text)
                                              ELSE extract_pdf_from_url(text) :
          IF ~extracted.raised /\ extracted.words < MinWords
          THEN /\ run' = [run EXCEPT ![t].j = @ + 1]
               /\ pc' = [pc EXCEPT ![t] = NextRefPc(t)]
               /\ UNCHANGED <<state, lastOp, processing_status, response,
                              completed, lastResult>>
          ELSE IF extracted.raised \/ text.raises
          THEN IF r.kind = "single"
               THEN /\ processing_status' =
                          [processing_status EXCEPT !.running = FALSE, !.mode = "idle"]
                    /\ pc' = [pc EXCEPT ![t] = "idle"]
                    /\ response' = [response EXCEPT ![t] = 500]
                    /\ completed' = IF r.force THEN completed
                                    ELSE completed \cup {upper(nse_code)}
                    /\ lastResult' = [lastResult EXCEPT ![t] =
                          RunResult(r, "raised", 0, state)]
                    /\ run' = [run EXCEPT ![t] = NoRun]
                    /\ UNCHANGED <<state, lastOp>>
               ELSE /\ processing_status' = [processing_status EXCEPT !.logs =
                          Append(@, <<r.i, nse_code, "Error">>)]
                    /\ run' = [run EXCEPT ![t] = [r EXCEPT !.i = @ + 1, !.results = <<>>]]
                    /\ pc' = [pc EXCEPT ![t] = "loop"]
                    /\ UNCHANGED <<state, lastOp, response, completed, lastResult>>
          ELSE /\ run' = [run EXCEPT ![t] =
                    [r EXCEPT !.j = @ + 1,
                              !.results = Append(@, NewRow(nse_code, transcript, clock)),
                              !.built = Append(@, NewRow(nse_code, transcript, clock))]]
               /\ state' = mark_processed(state, nse_code, quarter, metadata, clock)
               /\ lastOp' = [op |-> "mark_processed", company |-> nse_code,
                             items |-> <<<<nse_code, quarter, metadata>>>>]
               /\ pc' = [pc EXCEPT ![t] = NextRefPc(t)]
               /\ UNCHANGED <<processing_status, response, completed, lastResult>>
    /\ UNCHANGED <<clock, dataset, batch, world, lastFlush>>
    /\ UNCHANGED <<callVars, company_mgr>>

\* After analyze_company or analyze_local_company returned: the rest of the
\* loop body of run_incremental (with its batch save) or of
\* run_local_analysis, or the rest of api_analyze_single.  writes holds the
\* outcomes the write of OUTPUT_FILE may have: TRUE when pd.ExcelWriter
\* succeeds, FALSE when it raises and the file stays as it was.  The except
\* clause of run_incremental's loop also catches what the batch save raises.
EndEntity(t, writes) ==
    /\ pc[t] = "entity_done"
    /\ LET r == run[t]
           all_results == r.all_results \o r.results
           saving == IF r.kind = "single" THEN r.results # <<>>
                     ELSE /\ r.kind # "local"
                          /\ r.results # <<>>
                          /\ r.i % SaveEvery = 0
       IN \E ok \in IF saving THEN writes ELSE {TRUE} :
          IF r.kind = "single"
          THEN /\ dataset' = IF ok THEN save_results(dataset, r.results) ELSE dataset
               /\ lastFlush' = IF saving /\ ok
                               THEN [before |-> dataset, new_results |-> r.results]
                               ELSE lastFlush
               /\ processing_status' =
                     [processing_status EXCEPT !.running = FALSE, !.mode = "idle"]
               /\ pc' = [pc EXCEPT ![t] = "idle"]
               /\ response' = [response EXCEPT ![t] = IF ok THEN 200 ELSE 500]
               /\ completed' = IF r.force THEN completed
                               ELSE completed \cup {upper(r.nse_code)}
               /\ lastResult' = [lastResult EXCEPT ![t] =
                     IF ok THEN RunResult(r, "returned", Len(r.results), state)
                     ELSE RunResult([r EXCEPT !.failed_flush = TRUE], "raised", 0, state)]
               /\ run' = [run EXCEPT ![t] = NoRun]
          ELSE /\ run' = [run EXCEPT ![t] =
                     [r EXCEPT !.i = @ + 1, !.results = <<>>, !.all_results = all_results,
                               !.failed_flush = @ \/ ~ok]]
               /\ processing_status' =
                     IF r.results = <<>> THEN processing_status
                     ELSE [processing_status EXCEPT !.logs =
                             LET analyzed == <<r.i, batch[r.i], Len(r.results),
                                               "quarters analyzed">>
                             IN IF ok THEN Append(@, analyzed)
                                ELSE Append(Append(@, analyzed),
                                            <<r.i, batch[r.i], "Error">>)]
               /\ IF saving /\ ok
                  THEN /\ dataset' = save_results(dataset, all_results)
                       /\ lastFlush' = [before |-> dataset, new_results |-> all_results]
                  ELSE UNCHANGED <<dataset, lastFlush>>
               /\ pc' = [pc EXCEPT ![t] = "loop"]
               /\ UNCHANGED <<response, completed, lastResult>>
    /\ UNCHANGED <<state, clock, lastOp, batch, world>>
    /\ UNCHANGED <<callVars, company_mgr>>

\* run_incremental or run_local_analysis after its loop: the final save,
\* record_run, the return value and the finally block.  What the final save
\* raises leaves the run through the finally block; the response has begun
\* by then (its generator runs the run).
FinishRun(t, writes) ==
    /\ pc[t] = "loop"
    /\ run[t].kind # "single"
    /\ run[t].i > Len(batch)
    /\ LET r == run[t]
           run_type == IF r.kind = "local" THEN "local" ELSE "incremental"
           run_stats == [companies_processed |-> Len(batch),
                         new_quarters |-> Len(r.all_results)]
       IN \E ok \in IF r.all_results # <<>> THEN writes ELSE {TRUE} :
          IF ok
          THEN /\ dataset' = save_results(dataset, r.all_results)
               /\ lastFlush' = IF r.all_results = <<>> THEN lastFlush
                               ELSE [before |-> dataset, new_results |-> r.all_results]
               /\ state' = record_run(state, run_type, run_stats, clock)
               /\ lastOp' = [op |-> "record_run", company |-> "", items |-> <<>>]
               /\ lastResult' = [lastResult EXCEPT ![t] =
                     RunResult(r, "returned", Len(r.all_results), state)]
          ELSE /\ UNCHANGED <<dataset, lastFlush, state, lastOp>>
               /\ lastResult' = [lastResult EXCEPT ![t] =
                     RunResult([r EXCEPT !.failed_flush = TRUE], "raised", 0, state)]
    /\ processing_status' = [processing_status EXCEPT !.running = FALSE, !.mode = "idle"]
    /\ completed' = completed \cup BatchSet(batch)
    /\ pc' = [pc EXCEPT ![t] = "idle"]
    /\ response' = [response EXCEPT ![t] = 200]
    /\ run' = [run EXCEPT ![t] = NoRun]
    /\ UNCHANGED <<clock, batch, world>>
    /\ UNCHANGED <<callVars, company_mgr>>

(***************************************************************************)
(* The specifications of the engine.                                       *)
(***************************************************************************)
MaxRefs == 2
MaxConcurrentRequests == 3

Entities == {"TCS", "INFY"}
Batch == <<"TCS", "INFY">>
SingleCodes == {"tcs"}

Refs == [month : {"Jan", "Apr"}, year : {"2024"}, text : Texts]
RefLists(n) == UNION {[1..k -> Refs] : k \in 0..n}

\* one company with every list of references, one with at most one, which
\* can be scored
Worlds(entities) ==
    {w \in [entities -> RefLists(MaxRefs)] :
        /\ Len(w["INFY"]) <= 1
        /\ \A n \in DOMAIN w["INFY"] :
              w["INFY"][n].month = "Jan" /\ w["INFY"][n].text = Doc(150, FALSE)}

\* the worlds of the specification with concurrent requests
ConcurrentWorlds(entities) ==
    {w \in Worlds(entities) : /\ Len(w["INFY"]) = 0
                    /\ Len(w["TCS"]) = 1
                    /\ w["TCS"][1].month = "Jan"}

InitEngine(worlds, codes) ==
    /\ InitLedger
    /\ processing_status = IdleStatus
    /\ dataset = <<>>
    /\ batch = codes
    /\ world \in worlds
    /\ pc = [t \in Threads |-> "idle"]
    /\ run = [t \in Threads |-> NoRun]
    /\ response = [t \in Threads |-> 0]
    /\ completed = {}
    /\ lastResult = [t \in Threads |-> NoResult]
    /\ lastFlush = NoFlush
    /\ call = NoCall
    /\ frame = NoFrame
    /\ ret = None
    /\ company_mgr = NewManager

\* T: the threads that serve requests; limit: the number of requests admitted
NextEngine(T, limit) ==
    \E t \in T :
        \/ Request(t, "incremental", "", FALSE, limit)
        \/ Request(t, "full", "", FALSE, limit)
        \/ \E nse_code \in SingleCodes, force \in BOOLEAN :
              Request(t, "single", nse_code, force, limit)
        \/ StartRun(t)
        \/ BeginEntity(t)
        \/ CheckRef(t)
        \/ ScoreRef(t)
        \/ EndEntity(t, {TRUE})
        \/ FinishRun(t, {TRUE})

\* Requests served by the threaded server.
Init == InitEngine(ConcurrentWorlds(Entities), <<"TCS">>)
Next == NextEngine(Threads, MaxConcurrentRequests)
Spec == Init /\ [][Next]_vars

\* A step of the run the thread is serving.  The server's threads are
\* scheduled by the operating system: a run that can take its next step takes
\* it sooner or later, while requests arrive or not.
RunStep(t) ==
    \/ StartRun(t) \/ BeginEntity(t) \/ CheckRef(t) \/ ScoreRef(t)
    \/ EndEntity(t, {TRUE}) \/ FinishRun(t, {TRUE})

SpecLive == Spec /\ \A t \in Threads : WF_vars(RunStep(t))

\* One request at a time.
InitSeq == InitEngine(Worlds(Entities), Batch)
NextSeq == NextEngine({1}, MaxClock)
SpecSeq == InitSeq /\ [][NextSeq]_vars

SpecSeqLive == SpecSeq /\ WF_vars(RunStep(1))

\* companies = self.company_mgr.get_nse_codes(), cut to max_companies: each
\* run computes the list anew, so between two runs the list may change with
\* the request's max_companies or with the catalog.
CompanyLists == {<<"TCS", "INFY">>, <<"TCS">>}

SelectCompanies(companies) ==
    /\ \A t \in Threads : pc[t] = "idle"
    /\ companies # batch
    /\ batch' = companies
    /\ UNCHANGED <<state, clock, lastOp, processing_status, dataset, world, pc, run,
                   response, completed, lastResult, lastFlush>>
    /\ UNCHANGED <<callVars, company_mgr>>

\* One request at a time, over company lists of different lengths.
NextProgress ==
    \/ NextEngine({1}, MaxClock)
    \/ \E companies \in CompanyLists : SelectCompanies(companies)

SpecProgress == InitSeq /\ [][NextProgress]_vars

\* A batch long enough for the batch save of run_incremental, on a disk
\* whose writes may fail: eleven companies, of which the first may have any
\* two transcripts and the tenth and the eleventh one that can be scored.
MaxBatchRuns == 1

LongBatch == <<"TCS", "C02", "C03", "C04", "C05", "C06", "C07", "C08", "C09", "C10",
               "C11">>

\* the references of the long batch: also one of which nothing is extracted
AllRefs == [month : {"Jan", "Apr"}, year : {"2024"}, text : Texts \cup {Doc(0, FALSE)}]

LongWorlds(refs) ==
    {w \in [{"TCS", "C10", "C11"} -> UNION {[1..k -> refs] : k \in 0..2}] :
        \A c \in {"C10", "C11"} :
            /\ Len(w[c]) <= 1
            /\ \A n \in DOMAIN w[c] :
                  w[c][n].month = "Jan" /\ w[c][n].text = Doc(150, FALSE)}

InitBatch == InitEngine(LongWorlds(AllRefs), LongBatch)

NextBatch ==
    \E t \in {1} :
        \/ Request(t, "incremental", "", FALSE, MaxBatchRuns)
        \/ Request(t, "full", "", FALSE, MaxBatchRuns)
        \/ \E force \in BOOLEAN : Request(t, "local", "", force, MaxBatchRuns)
        \/ \E nse_code \in SingleCodes, force \in BOOLEAN :
              Request(t, "single", nse_code, force, MaxBatchRuns)
        \/ StartRun(t)
        \/ BeginEntity(t)
        \/ CheckRef(t)
        \/ ScoreRef(t)
        \/ EndEntity(t, BOOLEAN)
        \/ FinishRun(t, BOOLEAN)

SpecBatch == InitBatch /\ [][NextBatch]_vars

(***************************************************************************)
(* The ledger's operations, called directly (SpecLedger).                  *)
(***************************************************************************)
RunTypes == {"full", "incremental", "local"}

\* the companies of the items of a batch: one company in two spellings
BatchCompanies == {"TCS", "tcs"}

BatchItems ==
    UNION {[1..n -> BatchCompanies \X Quarters \X {NoMetadata}] : n \in 0..MaxBatchItems}

MarkProcessed(company, quarter) ==
    /\ UNCHANGED engineVars
    /\ clock < MaxClock
    /\ clock' = clock + 1
    /\ state' = mark_processed(state, company, quarter, NoMetadata, clock')
    /\ lastOp' = [op |-> "mark_processed", company |-> company,
                  items |-> <<<<company, quarter, NoMetadata>>>>]
    /\ UNCHANGED <<callVars, company_mgr>>

MarkBatchProcessed(items) ==
    /\ UNCHANGED engineVars
    /\ clock < MaxClock
    /\ clock' = clock + 1
    /\ state' = mark_batch_processed(state, items, clock')
    /\ lastOp' = [op |-> "mark_batch_processed", company |-> "", items |-> items]
    /\ UNCHANGED <<callVars, company_mgr>>

ClearCompany(company) ==
    /\ UNCHANGED engineVars
    /\ state' = clear_company(state, company)
    /\ lastOp' = [op |-> "clear_company", company |-> company, items |-> <<>>]
    /\ UNCHANGED clock
    /\ UNCHANGED <<callVars, company_mgr>>

ClearAll ==
    /\ UNCHANGED engineVars
    /\ state' = clear_all(state)
    /\ lastOp' = [op |-> "clear_all", company |-> "", items |-> <<>>]
    /\ UNCHANGED clock
    /\ UNCHANGED <<callVars, company_mgr>>

RecordRun(run_type) ==
    /\ UNCHANGED engineVars
    /\ clock < MaxClock
    /\ clock' = clock + 1
    /\ state' = record_run(state, run_type, EmptyDict, clock')
    /\ lastOp' = [op |-> "record_run", company |-> "", items |-> <<>>]
    /\ UNCHANGED <<callVars, company_mgr>>

InitLedgerOnly ==
    /\ InitLedger
    /\ processing_status = IdleStatus
    /\ dataset = <<>>
    /\ batch = <<>>
    /\ world = <<>>
    /\ pc = [t \in Threads |-> "idle"]
    /\ run = [t \in Threads |-> NoRun]
    /\ response = [t \in Threads |-> 0]
    /\ completed = {}
    /\ lastResult = [t \in Threads |-> NoResult]
    /\ lastFlush = NoFlush
    /\ call = NoCall
    /\ frame = NoFrame
    /\ ret = None
    /\ company_mgr = NewManager

NextLedger ==
    \/ \E company \in CompanyNames, quarter \in Quarters :
          MarkProcessed(company, quarter)
    \/ \E items \in BatchItems : MarkBatchProcessed(items)
    \/ \E company \in CompanyNames : ClearCompany(company)
    \/ ClearAll
    \/ \E run_type \in RunTypes : RecordRun(run_type)

SpecLedger == InitLedgerOnly /\ [][NextLedger]_vars


(***************************************************************************)
(* finbert_analyzer.py: the chunker.  A text is known by the number of its *)
(* words (len(text.split())) and by whether it is the empty string; a      *)
(* chunk is the word slice words[start:end] it joins, or the fallback      *)
(* text[:2000].                                                            *)
(***************************************************************************)
DefaultMaxTokens == 450
MaxWindows == 3

Text(words, empty) == [words |-> words, empty |-> empty]
Chunk(start, end) == [start |-> start, end |-> end, raw |-> FALSE]
RawChunk == [start |-> 0, end |-> 0, raw |-> TRUE]

min(a, b) == IF a <= b THEN a ELSE b
max(a, b) == IF a >= b THEN a ELSE b

\* int(max_tokens * 0.75)
words_per_chunk(max_tokens) == (max_tokens * 3) \div 4

no_overlap(wpc) == 0

\* int(words_per_chunk * 0.1)
overlap(wpc) == wpc \div 10

ChunkCall(text, max_tokens) ==
    [fn |-> "_chunk_text", text |-> text, max_tokens |-> max_tokens]

\* One iteration of the while loop of _chunk_text: its local variables after
\* it.  The joined chunk is blank only when the slice holds no word.
ChunkIteration(locals, len_words, max_tokens) ==
    LET end == min(locals.start + words_per_chunk(max_tokens), len_words)
    IN [start |-> IF end < len_words
                  THEN end - overlap(words_per_chunk(max_tokens))
                  ELSE len_words,
        chunks |-> IF end > locals.start
                   THEN Append(locals.chunks, Chunk(locals.start, end))
                   ELSE locals.chunks]

ChunkLoop ==
    /\ call.fn = "_chunk_text"
    /\ ret = None
    /\ frame.start < call.text.words
    /\ frame' = ChunkIteration(frame, call.text.words, call.max_tokens)
    /\ UNCHANGED <<call, ret>>
    /\ UNCHANGED <<ledgerVars, engineVars, company_mgr>>

\* The exit of the loop and the return statement.
ChunkReturn ==
    /\ call.fn = "_chunk_text"
    /\ ret = None
    /\ ~(frame.start < call.text.words)
    /\ ret' = Some(IF frame.chunks # <<>> THEN frame.chunks ELSE <<RawChunk>>)
    /\ UNCHANGED <<call, frame>>
    /\ UNCHANGED <<ledgerVars, engineVars, company_mgr>>

\* The token budgets tried: the default one and small ones, with windows of
\* 0, 1, 5, 10 and 20 words.
TokenBudgets == {1, 2, 7, 14, 27, DefaultMaxTokens}

\* Texts around every multiple of the window, up to MaxWindows windows.
TextLengths(wpc) ==
    {n \in {k * wpc + d : k \in 0..MaxWindows, d \in {-1, 0, 1}} : n >= 0} \cup {1}

ChunkCalls ==
    UNION {{ChunkCall(Text(n, FALSE), max_tokens) :
                n \in TextLengths(words_per_chunk(max_tokens))}
           \cup {ChunkCall(Text(0, TRUE), max_tokens)} : max_tokens \in TokenBudgets}

\* The state in which a function of the analyzer or of the locator is applied
\* to one of the arguments of calls; locals are its local variables on entry.
InitCall(calls, locals) ==
    /\ InitLedger
    /\ processing_status = IdleStatus
    /\ dataset = <<>>
    /\ batch = <<>>
    /\ world = <<>>
    /\ pc = [t \in Threads |-> "idle"]
    /\ run = [t \in Threads |-> NoRun]
    /\ response = [t \in Threads |-> 0]
    /\ completed = {}
    /\ lastResult = [t \in Threads |-> NoResult]
    /\ lastFlush = NoFlush
    /\ call \in calls
    /\ frame = locals
    /\ ret = None
    /\ company_mgr = NewManager

InitChunker == InitCall(ChunkCalls, [start |-> 0, chunks |-> <<>>])
NextChunker == ChunkLoop \/ ChunkReturn
SpecChunker == InitChunker /\ [][NextChunker]_vars

\* The interpreter goes on executing the function: the loop takes its next
\* turn and the return statement is reached when the loop is left.
SpecChunkerLive == SpecChunker /\ WF_vars(NextChunker)

(***************************************************************************)
(* finbert_analyzer.py: the guidance detector.  A text is the sequence of  *)
(* its words, joined by single blanks; a pattern 'a.*b' is the sequence of *)
(* its literal fragments <<a, b>>.                                         *)
(***************************************************************************)
MaxTextWords == 4

positive_patterns ==
    << <<"rais", "guidance">>, <<"upgrad", "guidance">>, <<"exceed", "expectation">>,
       <<"beat", "estimate">>, <<"above", "consensus">>, <<"stronger", "outlook">>,
       <<"increas", "forecast">>, <<"revis", "upward">> >>

negative_patterns ==
    << <<"lower", "guidance">>, <<"cut", "guidance">>, <<"miss", "expectation">>,
       <<"below", "estimate">>, <<"weaker", "outlook">>, <<"decreas", "forecast">>,
       <<"revis", "downward">>, <<"disappoint">> >>

\* The words of the texts tried.
Vocabulary ==
    {"Raised", "raised", "upgraded", "guidance", "lowered", "cut", "disappointed", "the"}

\* str.lower()
lower(word) ==
    CASE word = "Raised" -> "raised"
      [] word = "Transcript" -> "transcript"
      [] OTHER -> word

\* The fragments of the patterns that occur in a word, as substrings.
Fragments(word) ==
    CASE word = "raised" -> {"rais"}
      [] word = "upgraded" -> {"upgrad"}
      [] word = "guidance" -> {"guidance"}
      [] word = "lowered" -> {"lower"}
      [] word = "cut" -> {"cut"}
      [] word = "disappointed" -> {"disappoint"}
      [] OTHER -> {}

text_lower(words) == [n \in DOMAIN words |-> lower(words[n])]

\* The index of the first word from index n on in which the fragment occurs,
\* 0 when there is none: the leftmost match of a literal.
RECURSIVE FindFrom(_, _, _)
FindFrom(words, fragment, n) ==
    IF n > Len(words) THEN 0
    ELSE IF fragment \in Fragments(words[n]) THEN n
    ELSE FindFrom(words, fragment, n + 1)

\* re.search(pattern, text): the leftmost occurrence of the first fragment,
\* then anything ('.*'; the text has no newline), then the second fragment.
re_search(pattern, words) ==
    LET first == FindFrom(words, pattern[1], 1)
    IN IF first = 0 THEN FALSE
       ELSE IF Len(pattern) = 1 THEN TRUE
       ELSE FindFrom(words, pattern[2], first + 1) # 0

\* the number of places of the text where a phrase of one of the patterns
\* stands: its fragments in adjacent words
RECURSIVE CountOccurrences(_, _)
CountOccurrences(patterns, words) ==
    IF patterns = <<>> THEN 0
    ELSE LET p == Head(patterns)
         IN Cardinality({n \in DOMAIN words :
                /\ p[1] \in Fragments(words[n])
                /\ Len(p) = 2 => /\ n + 1 \in DOMAIN words
                                 /\ p[2] \in Fragments(words[n + 1])})
            + CountOccurrences(Tail(patterns), words)

\* sum(1 for p in patterns if re.search(p, text_lower))
RECURSIVE CountMatches(_, _)
CountMatches(patterns, words) ==
    IF patterns = <<>> THEN 0
    ELSE (IF re_search(Head(patterns), words) THEN 1 ELSE 0)
         + CountMatches(Tail(patterns), words)

\* detect_guidance, in thousandths
detect_guidance(words) ==
    LET pos_matches == CountMatches(positive_patterns, text_lower(words))
        neg_matches == CountMatches(negative_patterns, text_lower(words))
    IN IF pos_matches > neg_matches THEN 1000
       ELSE IF neg_matches > pos_matches THEN -1000
       ELSE 0

GuidanceCall(words) == [fn |-> "detect_guidance", text |-> words]

DetectGuidance ==
    /\ call.fn = "detect_guidance"
    /\ ret = None
    /\ ret' = Some(detect_guidance(call.text))
    /\ UNCHANGED <<call, frame>>
    /\ UNCHANGED <<ledgerVars, engineVars, company_mgr>>

GuidanceTexts(vocabulary) == UNION {[1..n -> vocabulary] : n \in 0..MaxTextWords}
GuidanceCalls(texts) == {GuidanceCall(words) : words \in texts}

InitGuidance == InitCall(GuidanceCalls(GuidanceTexts(Vocabulary)), NoFrame)
NextGuidance == DetectGuidance
SpecGuidance == InitGuidance /\ [][NextGuidance]_vars

(***************************************************************************)
(* finbert_analyzer.py and sentiment_app.py: the scorer.  Probabilities,   *)
(* polarities and scores are in millionths here (One is 1.0), so that      *)
(* round(x, 3) has digits to drop.                                         *)
(***************************************************************************)
One == 1000000
MaxKeywords == 2

\* round(x, 3): the nearest thousandth.  The float next to a decimal tie lies
\* on either side of it, so a tie rounds either way.
round3(x) ==
    LET q == x \div 1000
        r == x - 1000 * q
    IN IF r < 500 THEN {1000 * q}
       ELSE IF r > 500 THEN {1000 * (q + 1)}
       ELSE {1000 * q, 1000 * (q + 1)}

abs(x) == IF x < 0 THEN -x ELSE x

ScoreVector(positive, negative, neutral, compound_score) ==
    [positive |-> positive, negative |-> negative, neutral |-> neutral,
     compound_score |-> compound_score]

RECURSIVE SumField(_, _)
SumField(all_scores, k) ==
    IF all_scores = <<>> THEN 0 ELSE Head(all_scores)[k] + SumField(Tail(all_scores), k)

\* np.mean(all_scores, axis=0)
mean(all_scores, k) == SumField(all_scores, k) \div Len(all_scores)

\* _analyze_text_textblob: the vectors it may return for a text of the given
\* word count whose TextBlob polarity is polarity.
analyze_text_textblob(text, polarity) ==
    IF text.empty \/ text.words < 20
    THEN {ScoreVector(330000, 330000, 340000, 0)}
    ELSE LET positive == IF polarity > 0 THEN 500000 + polarity \div 2
                         ELSE IF polarity < 0 THEN 100000 ELSE 250000
             negative == IF polarity > 0 THEN 100000
                         ELSE IF polarity < 0 THEN 500000 + abs(polarity) \div 2
                         ELSE 250000
             neutral == IF polarity = 0 THEN 500000 ELSE One - positive - negative
         IN {ScoreVector(p, n, u, c) :
                p \in round3(positive), n \in round3(negative),
                u \in round3(neutral), c \in round3(polarity)}

\* analyze_text_finbert: all_scores are the softmax outputs of the model for
\* the chunks of the text, in the order [positive, negative, neutral].
analyze_text_finbert(use_finbert, text, all_scores, polarity) ==
    IF ~use_finbert THEN analyze_text_textblob(text, polarity)
    ELSE LET compound == mean(all_scores, 1) - mean(all_scores, 2)
         IN {ScoreVector(mean(all_scores, 1), mean(all_scores, 2), mean(all_scores, 3), c) :
                c \in round3(compound)}

\* get_keyword_sentiment of a text with the given numbers of positive and
\* negative keyword hits
get_keyword_sentiment(pos_count, neg_count) ==
    LET total == pos_count + neg_count
        score == ((pos_count - neg_count) * One) \div total
    IN IF total = 0 THEN {0}
       ELSE round3(max(-One, min(One, score)))

\* calculate_risk_score of a text of the given word count in which the risk
\* terms occur risk_count times
calculate_risk_score(words, risk_count) ==
    IF words = 0 THEN {0}
    ELSE round3(min(One, ((risk_count * One * 1000) \div words) \div 10))

\* a * 0.50 + b * 0.30 + c * 0.30
overall_overweight(compound_score, keyword_score, guidance) ==
    (50 * compound_score + 30 * keyword_score + 30 * guidance) \div 100

\* analyze_transcript: finbert_result['compound_score'] * 0.50
\*                     + keyword_score * 0.30 + guidance * 0.20
overall(compound_score, keyword_score, guidance) ==
    (50 * compound_score + 30 * keyword_score + 20 * guidance) \div 100

\* get_composite_score: (polarity * 0.40) + (keyword * 0.40) + (guidance * 0.20)
composite(polarity, keyword, guidance) ==
    (40 * polarity + 40 * keyword + 20 * guidance) \div 100

\* the guidance of get_composite_score, in thousandths
composite_guidance(words) ==
    IF \/ re_search(<<"rais", "guidance">>, text_lower(words))
       \/ re_search(<<"exceed", "expectation">>, text_lower(words))
    THEN 1000
    ELSE IF \/ re_search(<<"lower", "guidance">>, text_lower(words))
            \/ re_search(<<"miss", "expectation">>, text_lower(words))
    THEN -1000
    ELSE 0

\* The chunks _chunk_text returns, for a window of at least one word.
RECURSIVE chunk_text(_, _, _)
chunk_text(locals, len_words, max_tokens) ==
    IF locals.start < len_words
    THEN chunk_text(ChunkIteration(locals, len_words, max_tokens), len_words, max_tokens)
    ELSE IF locals.chunks # <<>> THEN locals.chunks ELSE <<RawChunk>>

\* A document as the scorer sees it: its length, the phrases the guidance
\* detector reads, its keyword and risk-term hits, and what the model and
\* TextBlob make of it.
Document(text, phrases, pos_count, neg_count, risk_count, all_scores, polarity) ==
    [text |-> text, phrases |-> phrases, pos_count |-> pos_count,
     neg_count |-> neg_count, risk_count |-> risk_count,
     all_scores |-> all_scores, polarity |-> polarity]

\* analyze_transcript: the results it may return
analyze_transcript(use_finbert, doc) ==
    IF doc.text.empty \/ doc.text.words < 50
    THEN {[finbert_score |-> 0, finbert_positive |-> 330000,
           finbert_negative |-> 330000, finbert_neutral |-> 340000,
           keyword_sentiment |-> 0, guidance |-> 0, risk |-> 0,
           overall_sentiment |-> 0]}
    ELSE LET guidance == 1000 * detect_guidance(doc.phrases)
         IN UNION {{[finbert_score |-> v.compound_score, finbert_positive |-> v.positive,
                     finbert_negative |-> v.negative, finbert_neutral |-> v.neutral,
                     keyword_sentiment |-> k, guidance |-> guidance, risk |-> r,
                     overall_sentiment |-> o] :
                        o \in round3(overall(v.compound_score, k, guidance))} :
                    v \in analyze_text_finbert(use_finbert, doc.text, doc.all_scores,
                                               doc.polarity),
                    k \in get_keyword_sentiment(doc.pos_count, doc.neg_count),
                    r \in calculate_risk_score(doc.text.words, doc.risk_count)}

\* get_composite_score: the pairs (composite, guidance) it may return
get_composite_score(polarity, keyword, words) ==
    LET guidance == 1000 * composite_guidance(words)
    IN {<<c, guidance>> : c \in round3(composite(polarity, keyword, guidance))}

AnalyzeTextFinbert ==
    /\ call.fn = "analyze_text_finbert"
    /\ ret = None
    /\ \E v \in analyze_text_finbert(call.use_finbert, call.text, call.all_scores,
                                     call.polarity) :
          ret' = Some(v)
    /\ UNCHANGED <<call, frame>>
    /\ UNCHANGED <<ledgerVars, engineVars, company_mgr>>

AnalyzeTranscript ==
    /\ call.fn = "analyze_transcript"
    /\ ret = None
    /\ \E analysis \in analyze_transcript(call.use_finbert, call.doc) :
          ret' = Some(analysis)
    /\ UNCHANGED <<call, frame>>
    /\ UNCHANGED <<ledgerVars, engineVars, company_mgr>>

GetCompositeScore ==
    /\ call.fn = "get_composite_score"
    /\ ret = None
    /\ \E pair \in get_composite_score(call.polarity, call.keyword, call.text) :
          ret' = Some(pair)
    /\ UNCHANGED <<call, frame>>
    /\ UNCHANGED <<ledgerVars, engineVars, company_mgr>>

\* The softmax outputs tried: each sums to One.
Distributions ==
    {<<One, 0, 0>>, <<0, One, 0>>, <<600400, 200100, 199500>>,
     <<333333, 333333, 333334>>, <<123456, 654321, 222223>>}

\* The TextBlob polarities tried, from -1.0 to 1.0.
Polarities ==
    {-One, -800000, -500000, -3000, -1000, 0, 1000, 3000, 250000, 500000, 800000,
     999000, One}

ScorerTexts ==
    {Text(0, TRUE)} \cup {Text(n, FALSE) : n \in {0, 19, 20, 49, 50, 150, 400}}

\* What the model and TextBlob may make of a text: one softmax output per
\* chunk of it when the model is used, a polarity when it is not.
Readings(use_finbert, text) ==
    IF use_finbert
    THEN {<<s, 0>> : s \in [1..Len(chunk_text([start |-> 0, chunks |-> <<>>], text.words,
                                              DefaultMaxTokens)) -> Distributions]}
    ELSE {<<(<<>>), p>> : p \in Polarities}

Phrases == {<<>>, <<"raised", "guidance">>, <<"lowered", "guidance">>, <<"the", "guidance">>}

ScorerCalls(texts) ==
    UNION {
        UNION {
            {[fn |-> "analyze_text_finbert", use_finbert |-> use_finbert, text |-> text,
              all_scores |-> reading[1], polarity |-> reading[2]]}
            \cup {[fn |-> "analyze_transcript", use_finbert |-> use_finbert,
                   doc |-> Document(text, phrases, pos_count, neg_count, risk_count,
                                    reading[1], reading[2])] :
                     phrases \in Phrases, pos_count \in 0..MaxKeywords,
                     neg_count \in 0..MaxKeywords, risk_count \in {0, 1}}
            : reading \in Readings(use_finbert, text)}
        : use_finbert \in BOOLEAN, text \in texts}
    \cup {[fn |-> "get_composite_score", polarity |-> polarity, keyword |-> keyword,
           text |-> words] :
             polarity \in Polarities \cup {-3 * One, 3 * One},
             keyword \in {-2 * One, -One, 0, 500000, One, 2 * One},
             words \in Phrases}

InitScorer == InitCall(ScorerCalls(ScorerTexts), NoFrame)
NextScorer == AnalyzeTextFinbert \/ AnalyzeTranscript \/ GetCompositeScore
SpecScorer == InitScorer /\ [][NextScorer]_vars

(***************************************************************************)
(* unified_app.py: the locator's period resolution.  A string is the       *)
(* sequence of its characters; a run of characters that are neither digits *)
(* nor blanks nor '-' or '/' separators of a date is written as one token  *)
(* ("https://www.bseindia.com/", "Jan", "Transcript").                     *)
(***************************************************************************)
MaxAttempts == 10
StartYear == 2015
EndYear == 2026
MaxLinks == 2

Digits == {"0", "1", "2", "3", "4", "5", "6", "7", "8", "9"}

DigitValue(c) ==
    CASE c = "0" -> 0 [] c = "1" -> 1 [] c = "2" -> 2 [] c = "3" -> 3 [] c = "4" -> 4
      [] c = "5" -> 5 [] c = "6" -> 6 [] c = "7" -> 7 [] c = "8" -> 8 [] c = "9" -> 9

\* int(s) of a string of digits
RECURSIVE int(_)
int(s) == IF s = <<>> THEN 0 ELSE 10 * int(SubSeq(s, 1, Len(s) - 1)) + DigitValue(s[Len(s)])

\* the alternatives Jan|Feb|...|Dec of the label pattern
MonthNames == {Months[n] : n \in DOMAIN Months}

AllDigits(s, from, to) == \A n \in from..to : n \in DOMAIN s /\ s[n] \in Digits

\* the number of blanks of s from index n on: what '\s+' consumes
RECURSIVE Blanks(_, _)
Blanks(s, n) == IF n \in DOMAIN s /\ s[n] = " " THEN 1 + Blanks(s, n + 1) ELSE 0

DateInfo(month, year) == [month |-> month, year |-> year]

\* re.match(r'^(Jan|...|Dec)\s+(\d{4})$', text): the date it yields, or None
match_label(text) ==
    IF text = <<>> \/ text[1] \notin MonthNames THEN None
    ELSE LET blanks == Blanks(text, 2)
             year == 2 + blanks
         IN IF blanks >= 1 /\ AllDigits(text, year, year + 3) /\ Len(text) = year + 3
            THEN Some(DateInfo(text[1], SubSeq(text, year, year + 3)))
            ELSE None

\* _extract_date_from_context: previous are the texts of the elements before
\* the link, the nearest first; the loop from its attempts-th turn on
RECURSIVE extract_date_from_context(_, _)
extract_date_from_context(previous, attempts) ==
    IF ~(attempts + 1 \in DOMAIN previous /\ attempts < MaxAttempts) THEN None
    ELSE LET match == match_label(previous[attempts + 1])
         IN IF match # None THEN match
            ELSE extract_date_from_context(previous, attempts + 1)

\* (\d{4})[/-](\d{2})[/-](\d{2}) matches at index n of url
DateAt(url, n) ==
    /\ AllDigits(url, n, n + 3)
    /\ n + 4 \in DOMAIN url /\ url[n + 4] \in {"/", "-"}
    /\ AllDigits(url, n + 5, n + 6)
    /\ n + 7 \in DOMAIN url /\ url[n + 7] \in {"/", "-"}
    /\ AllDigits(url, n + 8, n + 9)

\* re.search: the index of the leftmost match from n on, 0 when there is none
RECURSIVE SearchDate(_, _)
SearchDate(url, n) ==
    IF n > Len(url) THEN 0
    ELSE IF DateAt(url, n) THEN n
    ELSE SearchDate(url, n + 1)

\* _extract_date_from_url
extract_date_from_url(url) ==
    LET at == SearchDate(url, 1)
    IN IF at = 0 THEN None
       ELSE LET year == SubSeq(url, at, at + 3)
                month_num == int(SubSeq(url, at + 5, at + 6))
                month == IF 1 <= month_num /\ month_num <= 12
                         THEN Months[month_num] ELSE "Unknown"
            IN Some(DateInfo(month, year))

Link(href, text, previous) == [href |-> href, text |-> text, previous |-> previous]

url_then_context(link) ==
    LET from_url == extract_date_from_url(link.href)
    IN IF from_url # None THEN from_url
       ELSE extract_date_from_context(link.previous, 0)

\* self._extract_date_from_context(link) or self._extract_date_from_url(href)
date_info_of(link) ==
    LET from_context == extract_date_from_context(link.previous, 0)
    IN IF from_context # None THEN from_context
       ELSE extract_date_from_url(link.href)

\* urljoin(self.base_url, href)
urljoin(href) ==
    IF href # <<>> /\ href[1] \in {"https://www.bseindia.com/", "https://example.com/"}
    THEN href
    ELSE <<"https://www.screener.in">> \o href

Tokens(s) == {s[n] : n \in DOMAIN s}

Transcript(url, date_info) ==
    [url |-> url, month |-> date_info.month, year |-> date_info.year,
     quarter |-> QuarterKey(date_info.month, date_info.year)]

\* the year filter left out
any_year(date_info, start_year, end_year) == TRUE

\* the year filter of get_transcript_urls: int(date_info['year']) lies in the
\* requested range (the year is four digits, so int does not raise)
year_in_range(date_info, start_year, end_year) ==
    start_year <= int(date_info.year) /\ int(date_info.year) <= end_year

LocatorCall(all_links) == [fn |-> "get_transcript_urls", all_links |-> all_links]

\* The local variables of get_transcript_urls when the loop over all_links
\* starts; n is the number of links gone through, branch the way the last
\* iteration left the loop body.
LocatorFrame ==
    [n |-> 0, transcripts |-> <<>>, seen_urls |-> {}, date_info |-> None,
     branch |-> "none"]

\* One iteration of the loop 'for link in all_links' of get_transcript_urls.
ProcessLink ==
    /\ call.fn = "get_transcript_urls"
    /\ ret = None
    /\ frame.n < Len(call.all_links)
    /\ LET link == call.all_links[frame.n + 1]
           href == link.href
           date_info == date_info_of(link)
           full_url == urljoin(href)
           next == [frame EXCEPT !.n = @ + 1]
       IN frame' =
            IF href = <<>> \/ href[1] = "#" \/ "javascript:" \in Tokens(href)
            THEN [next EXCEPT !.branch = "href"]
            ELSE IF lower(link.text) # "transcript"
            THEN [next EXCEPT !.branch = "text"]
            ELSE IF date_info = None
            THEN [next EXCEPT !.date_info = date_info, !.branch = "no_date"]
            ELSE IF ~year_in_range(date_info[1], StartYear, EndYear)
            THEN [next EXCEPT !.date_info = date_info, !.branch = "year"]
            ELSE IF "https://www.bseindia.com/" \notin Tokens(full_url)
            THEN [next EXCEPT !.date_info = date_info, !.branch = "host"]
            ELSE IF full_url \in frame.seen_urls
            THEN [next EXCEPT !.date_info = date_info, !.branch = "seen"]
            ELSE [next EXCEPT !.date_info = date_info, !.branch = "appended",
                              !.seen_urls = @ \cup {full_url},
                              !.transcripts = Append(@, Transcript(full_url, date_info[1]))]
    /\ UNCHANGED <<call, ret>>
    /\ UNCHANGED <<ledgerVars, engineVars, company_mgr>>

ReturnTranscripts ==
    /\ call.fn = "get_transcript_urls"
    /\ ret = None
    /\ frame.n = Len(call.all_links)
    /\ ret' = Some(frame.transcripts)
    /\ UNCHANGED <<call, frame>>
    /\ UNCHANGED <<ledgerVars, engineVars, company_mgr>>

\* The link targets tried.
Date(year, sep1, month, sep2, day) == year \o <<sep1>> \o month \o <<sep2>> \o day

Paths ==
    {<<"x.pdf">>,
     Date(<<"2", "0", "2", "3">>, "-", <<"1", "1">>, "-", <<"0", "5">>),
     Date(<<"2", "0", "2", "3">>, "/", <<"1", "1">>, "/", <<"0", "5">>),
     Date(<<"2", "0", "2", "3">>, "-", <<"1", "3">>, "-", <<"0", "5">>),
     Date(<<"2", "0", "1", "4">>, "-", <<"0", "6">>, "-", <<"3", "0">>),
     Date(<<"2", "0", "2", "3">>, "-", <<"1">>, "-", <<"0", "5">>),
     <<"2", "0", "2", "3", "1", "1", "0", "5">>,
     Date(<<"2", "0", "2", "3">>, "-", <<"1", "1">>, "-", <<"0", "5">>) \o <<"/">>
        \o Date(<<"2", "0", "2", "4">>, "/", <<"0", "2">>, "/", <<"0", "1">>)}

Hrefs ==
    {<<host>> \o path :
        host \in {"https://www.bseindia.com/", "https://example.com/", "/"},
        path \in Paths}
    \cup {<<>>, <<"#">>, <<"javascript:">>}

\* The texts of the elements before a link.
Jan2024 == <<"Jan", " ", "2", "0", "2", "4">>

Labels ==
    {Jan2024,
     <<"Apr", " ", " ", "2", "0", "2", "4">>,
     <<"January", " ", "2", "0", "2", "4">>,
     <<"Jan", " ", "2", "4">>,
     <<"Nov", " ", "2", "0", "2", "3", " ", "results">>,
     <<"Jan", " ", "1", "9", "9", "9">>}

Filler(k) == [n \in 1..k |-> <<"Transcript">>]

Previous ==
    {Filler(k) \o tail :
        k \in {0, MaxAttempts - 1, MaxAttempts},
        tail \in {<<>>} \cup {<<label>> : label \in Labels}
                 \cup {<<<<"Apr", " ", "2", "0", "2", "4">>, Jan2024>>}}

Links(hrefs) == {Link(href, text, previous) :
             href \in hrefs, text \in {"Transcript", "PPT"}, previous \in Previous}

\* links of one page that repeat a target
RepeatedLinks ==
    {Link(<<"https://www.bseindia.com/">> \o path, "Transcript", <<label>>) :
        path \in {<<"x.pdf">>, <<"y.pdf">>},
        label \in {Jan2024, <<"Apr", " ", "2", "0", "2", "4">>}}

LocatorCalls(links) ==
    {LocatorCall(<<link>>) : link \in links}
    \cup {LocatorCall(all_links) :
            all_links \in UNION {[1..n -> RepeatedLinks] : n \in 0..MaxLinks}}

InitLocator == InitCall(LocatorCalls(Links(Hrefs)), LocatorFrame)
NextLocator == ProcessLink \/ ReturnTranscripts
SpecLocator == InitLocator /\ [][NextLocator]_vars

(***************************************************************************)
(* The catalog's operations, called directly (SpecCatalog).  call is the   *)
(* last operation called with its arguments, ret its result dict.          *)
(***************************************************************************)
CatalogNames == {"", "Acme"}
NseCodes == {None, Some(""), Some("acme"), Some("ACME"), Some("tcs")}
BseCodes == {None, Some(""), Some("999"), Some("500209")}
RemoveCodes == {"", "acme", "ACME", "TCS", "999", "500209", "XYZ"}

AddCustomCompany(name, nse_code, bse_code, validate, on_screener) ==
    LET out == add_custom_company(company_mgr, name, nse_code, bse_code, "Unknown", 0,
                                  validate, on_screener)
    IN /\ Len(out.mgr.custom_companies) <= MaxCustom
       /\ company_mgr' = out.mgr
       /\ call' = [fn |-> "add_custom_company", name |-> name, nse_code |-> nse_code,
                   bse_code |-> bse_code, validate |-> validate,
                   on_screener |-> on_screener]
       /\ ret' = Some(out.result)
       /\ UNCHANGED frame
       /\ UNCHANGED <<ledgerVars, engineVars>>

RemoveCustomCompany(nse_code) ==
    LET out == remove_custom_company(company_mgr, nse_code)
    IN /\ company_mgr' = out.mgr
       /\ call' = [fn |-> "remove_custom_company", nse_code |-> nse_code]
       /\ ret' = Some(out.result)
       /\ UNCHANGED frame
       /\ UNCHANGED <<ledgerVars, engineVars>>

InitCatalog == InitCall({NoCall}, NoFrame)

NextCatalog ==
    \/ \E name \in CatalogNames, nse_code \in NseCodes, bse_code \in BseCodes,
          validate \in BOOLEAN, on_screener \in BOOLEAN :
          AddCustomCompany(name, nse_code, bse_code, validate, on_screener)
    \/ \E nse_code \in RemoveCodes : RemoveCustomCompany(nse_code)

SpecCatalog == InitCatalog /\ [][NextCatalog]_vars

(***************************************************************************)
(* Properties of the ledger (SpecLedger).                                  *)
(***************************************************************************)
Marks(op, company, quarter) ==
    /\ op.op \in {"mark_processed", "mark_batch_processed"}
    /\ \E n \in DOMAIN op.items :
          /\ upper(op.items[n][1]) = upper(company)
          /\ op.items[n][2] = quarter

Clears(op, company) ==
    \/ op.op = "clear_all"
    \/ op.op = "clear_company" /\ upper(op.company) = upper(company)

\* the records the ledger holds for (company, quarter), the company compared
\* case-insensitively
RecordsFor(st, company, quarter) ==
    {k \in DOMAIN st.processed :
        upper(k) = upper(company) /\ quarter \in DOMAIN st.processed[k]}

\* C4: a key that mark_processed or mark_batch_processed has just marked is
\* reported processed under every spelling of the company; a key reported
\* processed stays so across every operation other than clear_company of that
\* company and clear_all; and the ledger never holds two records for one key.
C4_LedgerRecordLifetime ==
    [][\A company \in CompanyNames, quarter \in Quarters :
          /\ Marks(lastOp', company, quarter) => is_processed(state', company, quarter)
          /\ (is_processed(state, company, quarter) /\ ~Clears(lastOp', company))
                => is_processed(state', company, quarter)
          /\ Cardinality(RecordsFor(state', company, quarter)) <= 1]_vars

\* A key marked under the spelling "tcs" at time 2, with no run recorded and
\* one record held: it was marked twice, and is reported under both spellings.
C4_Witness ==
    /\ lastOp.op = "mark_processed"
    /\ lastOp.company = "tcs"
    /\ clock = 2
    /\ state.stats.total_processed = 1
    /\ state.last_full_run = None /\ state.last_incremental_run = None
    /\ \E quarter \in Quarters :
          /\ is_processed(state, "TCS", quarter)
          /\ is_processed(state, "tcs", quarter)
          /\ state.processed["TCS"][quarter].timestamp = 2

\* C5: stats.total_processed is the number of (company, quarter) records held
\* and stats.total_companies the number of companies with at least one record.
C5_LedgerCounters ==
    /\ state.stats.total_processed = Cardinality(LedgerKeys(state))
    /\ state.stats.total_companies =
          Cardinality({c \in DOMAIN state.processed : DOMAIN state.processed[c] # {}})

\* clear_company has just removed one company while another keeps two records.
C5_Witness ==
    /\ lastOp.op = "clear_company"
    /\ upper(lastOp.company) \notin DOMAIN state.processed
    /\ clock = 3
    /\ state.last_full_run = None /\ state.last_incremental_run = None
    /\ state.stats.total_companies = 1
    /\ state.stats.total_processed = 2

(***************************************************************************)
(* Properties of the engine.                                               *)
(***************************************************************************)
\* C1 (SpecSeq): a run without force of companies that a run without force has
\* already gone through (to its return or to its exception) since the ledger was
\* last cleared, over the same references and texts, builds no result row and
\* adds no (company, quarter) key to the ledger, while it runs and when it has
\* ended.
C1_Idempotence ==
    \A t \in Threads :
        /\ (pc[t] \notin {"idle", "admitted"} /\ run[t].repeat) =>
              /\ run[t].results = <<>>
              /\ run[t].all_results = <<>>
              /\ LedgerKeys(state) = run[t].keysBefore
        /\ lastResult[t].repeat =>
              /\ lastResult[t].new_quarters = 0
              /\ lastResult[t].new_keys = {}

\* A second run_incremental has returned, after a first one that marked two
\* keys of one company and one of the other.
C1_Witness ==
    /\ lastResult[1].kind = "incremental"
    /\ lastResult[1].repeat
    /\ lastResult[1].outcome = "returned"
    /\ Cardinality(LedgerKeys(state)) = 3
    /\ Len(dataset) = 3

\* C2 (Spec): at most one run is executing at any time.
C2_SingleRunGuard ==
    Cardinality({t \in Threads : pc[t] \notin {"idle", "admitted"}}) <= 1

\* (entity, year, month) of a row, the year taken by its value
PeriodKey(r) == <<r.Company, r.Year.value, r.Month>>

\* C3 (SpecSeq): after a flush whose batch holds exactly one row for a key for
\* which the dataset held a row of an earlier analysis, the dataset holds
\* exactly one row for that key, the one of the batch.
C3_MergeOnFlush ==
    \A n \in DOMAIN lastFlush.new_results :
        LET new == lastFlush.new_results[n]
            in_batch == {m \in DOMAIN lastFlush.new_results :
                            PeriodKey(lastFlush.new_results[m]) = PeriodKey(new)}
            earlier == {m \in DOMAIN lastFlush.before :
                            /\ PeriodKey(lastFlush.before[m]) = PeriodKey(new)
                            /\ lastFlush.before[m].Analyzed_At # new.Analyzed_At}
            held == {m \in DOMAIN dataset : PeriodKey(dataset[m]) = PeriodKey(new)}
        IN (Cardinality(in_batch) = 1 /\ earlier # {}) =>
              /\ Cardinality(held) = 1
              /\ \A m \in held : dataset[m].Analyzed_At = new.Analyzed_At

(***************************************************************************)
(* Properties of the chunker (SpecChunker).                                *)
(***************************************************************************)
ChunkerReturned == call.fn = "_chunk_text" /\ ret # None

\* consecutive chunks share exactly k words
SharesWords(chunks, k) ==
    \A n \in 1..(Len(chunks) - 1) : chunks[n].end - chunks[n + 1].start = k

\* consecutive chunks share at least one word
Overlapping(chunks) ==
    \A n \in 1..(Len(chunks) - 1) : chunks[n + 1].start < chunks[n].end

\* C8 as amended (SpecChunker): with W = int(0.75 * max_tokens) >= 1 and
\* O = int(0.1 * W), _chunk_text on a text of exactly 3 * W words returns 4
\* chunks, consecutive ones sharing O words, when O >= 1, and 3 chunks sharing
\* no word when O = 0; on a non-empty text of fewer than W words it returns
\* exactly one chunk.
C8_ChunkCount ==
    ChunkerReturned =>
        LET W == words_per_chunk(call.max_tokens)
            O == W \div 10
            chunks == ret[1]
        IN /\ (W >= 1 /\ call.text.words = 3 * W) =>
                 /\ Len(chunks) = IF O >= 1 THEN 4 ELSE 3
                 /\ SharesWords(chunks, O)
                 /\ chunks[1].start = 0 /\ chunks[Len(chunks)].end = 3 * W
           /\ (~call.text.empty /\ call.text.words < W) => Len(chunks) = 1

\* the default budget, a text of three windows: four chunks came back
C8_Witness ==
    /\ ChunkerReturned
    /\ call.max_tokens = DefaultMaxTokens
    /\ call.text.words = 3 * 337
    /\ Len(ret[1]) = 4
    /\ ret[1][2] = Chunk(304, 641)

\* C8 as stated (SpecChunker): a text of exactly 3 * W words gives 3
\* overlapping chunks, a non-empty text of fewer than W words exactly one.
C8_ThreeChunks ==
    ChunkerReturned =>
        LET W == words_per_chunk(call.max_tokens)
            chunks == ret[1]
        IN /\ (W >= 1 /\ call.text.words = 3 * W) =>
                 Len(chunks) = 3 /\ Overlapping(chunks)
           /\ (~call.text.empty /\ call.text.words < W) => Len(chunks) = 1

(***************************************************************************)
(* Properties of the guidance detector (SpecGuidance).                     *)
(***************************************************************************)
GuidanceReturned == call.fn = "detect_guidance" /\ ret # None

Sign(x) == IF x > 0 THEN 1000 ELSE IF x < 0 THEN -1000 ELSE 0

\* a pattern is found in a text: its first fragment stands in some word and
\* its second, when it has one, in a later word
Found(pattern, words) ==
    \E n \in DOMAIN words :
        /\ pattern[1] \in Fragments(lower(words[n]))
        /\ Len(pattern) = 2 =>
              \E k \in DOMAIN words : k > n /\ pattern[2] \in Fragments(lower(words[k]))

PatternsFound(patterns, words) ==
    Cardinality({n \in DOMAIN patterns : Found(patterns[n], words)})

\* C10 as amended (SpecGuidance): detect_guidance returns +1.0 when more of the
\* raising patterns than of the lowering patterns are found in the lowercased
\* text, -1.0 when fewer and 0.0 when as many; a pattern counts once however
\* often it is found, and its two fragments need not be adjacent.
C10_GuidanceByPatternsFound ==
    GuidanceReturned =>
        ret[1] = Sign(PatternsFound(positive_patterns, call.text)
                      - PatternsFound(negative_patterns, call.text))

\* one raising phrase and the lowering word twice: as many patterns of each
\* family are found, and the result is 0.0
C10_Witness ==
    /\ GuidanceReturned
    /\ call.text = <<"Raised", "guidance", "disappointed", "disappointed">>
    /\ ret[1] = 0

\* C10 as stated (SpecGuidance): the result is +1.0, -1.0 or 0.0 as the raising
\* phrases of the text are more than, fewer than or as many as its lowering
\* phrases.
C10_GuidanceByPhraseCounts ==
    GuidanceReturned =>
        ret[1] = Sign(CountOccurrences(positive_patterns, text_lower(call.text))
                      - CountOccurrences(negative_patterns, text_lower(call.text)))

(***************************************************************************)
(* Properties of the scorer (SpecScorer).                                  *)
(***************************************************************************)
Epsilon == 1000

\* the ScoreVector a call of the scorer returned
ReturnedVector ==
    IF call.fn = "analyze_text_finbert" THEN ret[1]
    ELSE ScoreVector(ret[1].finbert_positive, ret[1].finbert_negative,
                     ret[1].finbert_neutral, ret[1].finbert_score)

\* C6 (SpecScorer): every ScoreVector the scorer returns, on the model path, on
\* the fallback path and as the short-text default, has positive + negative +
\* neutral within Epsilon of 1 and compound equal to positive - negative (to
\* the three decimals compound is rounded to).
C6_ScoreVector ==
    (call.fn \in {"analyze_text_finbert", "analyze_transcript"} /\ ret # None) =>
        LET v == ReturnedVector
        IN /\ abs(v.positive + v.negative + v.neutral - One) <= Epsilon
           /\ abs(v.compound_score - (v.positive - v.negative)) <= Epsilon

\* the returned vector was computed from a TextBlob polarity
FallbackUsed ==
    /\ ~call.use_finbert
    /\ IF call.fn = "analyze_text_finbert"
       THEN ~(call.text.empty \/ call.text.words < 20)
       ELSE ~(call.doc.text.empty \/ call.doc.text.words < 50)

\* The relations of C6 hold of the vectors of the model path and of the
\* short-text defaults: C6 fails on the fallback path only.
ScoreVectorOffFallback ==
    (/\ call.fn \in {"analyze_text_finbert", "analyze_transcript"}
     /\ ret # None
     /\ ~FallbackUsed) =>
        LET v == ReturnedVector
        IN /\ abs(v.positive + v.negative + v.neutral - One) <= Epsilon
           /\ abs(v.compound_score - (v.positive - v.negative)) <= Epsilon

\* the three components of a returned composite score
Components ==
    IF call.fn = "analyze_transcript"
    THEN <<ret[1].finbert_score, ret[1].keyword_sentiment, ret[1].guidance>>
    ELSE <<call.polarity, call.keyword, ret[1][2]>>

CompositeReturned ==
    IF call.fn = "analyze_transcript" THEN ret[1].overall_sentiment ELSE ret[1][1]

InRange(x) == -One <= x /\ x <= One

\* C7 as amended (SpecScorer): the composite score analyze_transcript and
\* get_composite_score return lies in [-1, 1] whenever each of the three
\* components lies in [-1, 1].
C7_CompositeInRange ==
    (call.fn \in {"analyze_transcript", "get_composite_score"} /\ ret # None) =>
        ((\A n \in 1..3 : InRange(Components[n])) => InRange(CompositeReturned))

\* analyze_transcript returned 1.0 from three components of 1.0
C7_Witness ==
    /\ call.fn = "analyze_transcript"
    /\ ret # None
    /\ Components = <<One, One, One>>
    /\ CompositeReturned = One

\* C7 as stated (SpecScorer): the composite score lies in [-1, 1] whatever the
\* values of the components.
C7_CompositeClamped ==
    (call.fn \in {"analyze_transcript", "get_composite_score"} /\ ret # None) =>
        InRange(CompositeReturned)

(***************************************************************************)
(* Properties of the locator (SpecLocator).                                *)
(***************************************************************************)
\* the loop body has just gone through a link whose text mentions a transcript
TranscriptLinkDone ==
    /\ call.fn = "get_transcript_urls"
    /\ frame.n >= 1
    /\ frame.branch \notin {"none", "href", "text"}

\* text is a 'Mon YYYY' label: a month, blanks, four digits
IsLabel(text) ==
    \E k \in 1..Len(text) :
        /\ Len(text) = k + 5
        /\ text[1] \in MonthNames
        /\ \A n \in 2..(k + 1) : text[n] = " "
        /\ \A n \in (k + 2)..(k + 5) : text[n] \in Digits

LabelDate(text) == DateInfo(text[1], SubSeq(text, Len(text) - 3, Len(text)))

\* the places of the ten nearest preceding elements where a label stands
LabelPlaces(previous) == {n \in DOMAIN previous : n <= 10 /\ IsLabel(previous[n])}

\* the places of url where YYYY s MM s DD stands, s one of seps
DatePlaces(url, seps) ==
    {n \in DOMAIN url :
        /\ \A k \in {0, 1, 2, 3, 5, 6, 8, 9} :
              n + k \in DOMAIN url /\ url[n + k] \in Digits
        /\ url[n + 4] \in seps /\ url[n + 7] \in seps}

Least(S) == CHOOSE n \in S : \A k \in S : n <= k

MonthOf(url, n) ==
    LET month_num == 10 * DigitValue(url[n + 5]) + DigitValue(url[n + 6])
    IN IF month_num \in 1..12 THEN Months[month_num] ELSE "Unknown"

\* C9 as amended (SpecLocator): for a transcript link, the period is the
\* nearest 'Mon YYYY' label among the ten preceding elements when there is
\* one; otherwise, when the link target contains four digits, '-' or '/', two
\* digits, '-' or '/', two digits, it is the year of the leftmost such
\* substring with the month its middle digits number, 'Unknown' when they are
\* not 01..12; otherwise the link is discarded.
C9_PeriodResolution ==
    TranscriptLinkDone =>
        LET link == call.all_links[frame.n]
            labels == LabelPlaces(link.previous)
            dates == DatePlaces(link.href, {"-", "/"})
        IN IF labels # {}
           THEN frame.date_info = Some(LabelDate(link.previous[Least(labels)]))
           ELSE IF dates # {}
           THEN frame.date_info =
                   Some(DateInfo(MonthOf(link.href, Least(dates)),
                                 SubSeq(link.href, Least(dates), Least(dates) + 3)))
           ELSE frame.branch = "no_date"

\* a link under the label 'Jan 2024' whose target holds 2023-11-05 is kept
\* as Jan 2024
C9_Witness ==
    /\ TranscriptLinkDone
    /\ frame.branch = "appended"
    /\ call.all_links[frame.n].previous = <<Jan2024>>
    /\ DatePlaces(call.all_links[frame.n].href, {"-"}) # {}
    /\ frame.transcripts[1].month = "Jan"
    /\ frame.transcripts[1].year = <<"2", "0", "2", "4">>

\* C9 as stated (SpecLocator): the label when there is one; otherwise the
\* month and year of a YYYY-MM-DD substring of the link target; otherwise,
\* with no YYYY-MM-DD substring, the link is discarded (no transcript is
\* appended for it).
C9_LabelThenDashDate ==
    TranscriptLinkDone =>
        LET link == call.all_links[frame.n]
            labels == LabelPlaces(link.previous)
            dates == DatePlaces(link.href, {"-"})
        IN IF labels # {}
           THEN frame.date_info = Some(LabelDate(link.previous[Least(labels)]))
           ELSE IF dates # {}
           THEN \E n \in dates :
                   MonthOf(link.href, n) # "Unknown" =>
                      frame.date_info =
                         Some(DateInfo(MonthOf(link.href, n), SubSeq(link.href, n, n + 3)))
           ELSE frame.branch # "appended"


(***************************************************************************)
(* Properties of the catalog (SpecCatalog).                                *)
(***************************************************************************)
\* the codes of the entries of the catalog, static and custom
NseCodesOf(mgr) ==
    {upper(Nifty500[n].NSE_Code) : n \in DOMAIN Nifty500}
    \cup {upper(mgr.custom_companies[n].nse_code) : n \in DOMAIN mgr.custom_companies}
BseCodesOf(mgr) ==
    {Nifty500[n].BSE_Code : n \in DOMAIN Nifty500}
    \cup {mgr.custom_companies[n].bse_code : n \in DOMAIN mgr.custom_companies}

\* the given NSE code, the given BSE code is the code of an entry
NseCodeExists(mgr, nse_code) == truthy(nse_code) /\ upper(nse_code[1]) \in NseCodesOf(mgr)
BseCodeExists(mgr, bse_code) == truthy(bse_code) /\ bse_code[1] \in BseCodesOf(mgr)

\* the add fails and nothing changes
AddRejected == ~ret'[1].success /\ company_mgr' = company_mgr

\* the add succeeds, one entry is appended and the indices are those built
\* from the static rows and the new list
AddAppended ==
    /\ ret'[1].success
    /\ Len(company_mgr'.custom_companies) = Len(company_mgr.custom_companies) + 1
    /\ SubSeq(company_mgr'.custom_companies, 1, Len(company_mgr.custom_companies))
          = company_mgr.custom_companies
    /\ company_mgr' = Manager(company_mgr'.custom_companies)

\* An add step must fail when exists says the given code is in the catalog.
AddContract(exists) ==
    call'.fn = "add_custom_company" =>
        IF \/ call'.name = ""
           \/ ~truthy(call'.nse_code) /\ ~truthy(call'.bse_code)
           \/ exists
           \/ call'.validate /\ truthy(call'.nse_code) /\ ~call'.on_screener
        THEN AddRejected
        ELSE AddAppended

\* C11 Catalog add: add_custom_company fails and leaves custom storage and
\* every index unchanged whenever the name is empty, or neither an NSE nor a
\* BSE code is given, or a given code (NSE or BSE) is already the code of an
\* entry of the catalog, or validation is requested and the check of the
\* given NSE code on screener.in fails; otherwise it appends exactly one
\* entry and rebuilds the indices.
C11_CatalogAdd ==
    [][AddContract(NseCodeExists(company_mgr, call'.nse_code)
                   \/ BseCodeExists(company_mgr, call'.bse_code))]_vars

\* What holds of add_custom_company: the statement of C11 with "the code
\* already exists" read of the NSE code alone.
CatalogAddByNseCode ==
    [][AddContract(NseCodeExists(company_mgr, call'.nse_code))]_vars

\* code is the NSE or the BSE code of a custom entry
IsCustomCode(mgr, code) ==
    \E n \in DOMAIN mgr.custom_companies :
        \/ upper(mgr.custom_companies[n].nse_code) = upper(code)
        \/ mgr.custom_companies[n].bse_code = code

\* every static entry is what a lookup by each of its codes returns
StaticResolvable ==
    \A n \in DOMAIN Nifty500 :
        /\ Nifty500[n].NSE_Code # ""
              => get_company_by_nse(company_mgr, Nifty500[n].NSE_Code)
                    = Some(StaticInfo(Nifty500[n]))
        /\ Nifty500[n].BSE_Code # ""
              => get_company_by_bse(company_mgr, Nifty500[n].BSE_Code)
                    = Some(StaticInfo(Nifty500[n]))

\* every static entry is what a lookup by its NSE code returns
StaticResolvableByNse ==
    \A n \in DOMAIN Nifty500 :
        Nifty500[n].NSE_Code # ""
            => get_company_by_nse(company_mgr, Nifty500[n].NSE_Code)
                  = Some(StaticInfo(Nifty500[n]))

RemoveOfNoCustomCode ==
    call'.fn = "remove_custom_company" /\ ~IsCustomCode(company_mgr, call'.nse_code)
        => ~ret'[1].success /\ company_mgr' = company_mgr

\* C12 Catalog remove: remove_custom_company(code) fails and changes nothing
\* when code is not the code of a custom entry; and whatever adds and
\* removes are made, every static entry stays the entry resolved under each
\* of its exchange codes.
C12_CatalogRemove ==
    [][RemoveOfNoCustomCode]_vars /\ []StaticResolvable

\* What holds of the catalog: removes of other codes fail and change
\* nothing, and a static entry stays resolved under its NSE code.
CatalogRemoveByNseCode ==
    [][RemoveOfNoCustomCode]_vars /\ []StaticResolvableByNse


(***************************************************************************)
(* Properties of the runs over a batch (SpecBatch).                        *)
(***************************************************************************)
BatchKinds == {"incremental", "full", "local"}

\* the thread's run ends in this step
RunEnds(t) == pc[t] \notin {"idle", "admitted"} /\ pc'[t] = "idle"

\* C13 Persistence failure is fatal: a run in which a write of the dataset
\* failed, in a batch save or in the final save, does not go on, and what
\* it reports at its end is the failure, never a return value.
C13_PersistenceFailureFatal ==
    \A t \in Threads :
        /\ ~run[t].failed_flush
        /\ lastResult[t].failed_flush => lastResult[t].outcome = "raised"

\* What holds of a failed write: the one of the final save of a batch run
\* and the one of api_analyze_single leave the run with the exception.
FinalSaveFailureRaises ==
    [][\A t \in Threads :
          RunEnds(t) /\ lastResult'[t].failed_flush /\ ~run[t].failed_flush
              => lastResult'[t].outcome = "raised"]_vars

\* every row of rows is a row of the dataset ds
RowsFlushed(rows, ds) ==
    \A n \in DOMAIN rows :
        \E m \in DOMAIN ds :
            /\ ds[m].Company = rows[n].Company
            /\ ds[m].Month = rows[n].Month
            /\ ds[m].Analyzed_At = rows[n].Analyzed_At
            /\ ds[m].Overall_Sentiment = rows[n].Overall_Sentiment

\* the thread is about to score a document on which analyze_transcript raises
ScoringRaises(t) ==
    /\ pc[t] = "scoring"
    /\ LET text == Transcripts(world, CurrentCode(t))[run[t].j].text
       IN text.words >= MinWords /\ text.raises

\* C14 Scoring failure keeps partial results: when scoring raises for a
\* document of a company of the batch, the run goes on with the next company,
\* and when the run returns every row built during it, those built for that
\* company before the failure included, is in the durable dataset.
C14_PartialResultsFlushed ==
    [][\A t \in Threads :
          /\ ScoringRaises(t) /\ run[t].kind \in BatchKinds
                => pc'[t] = "loop" /\ run'[t].i = run[t].i + 1
          /\ RunEnds(t) /\ run[t].kind \in BatchKinds
                        /\ lastResult'[t].outcome = "returned"
                => RowsFlushed(run[t].built, dataset')]_vars

\* What holds of a scoring failure: the run goes on with the next company
\* and the rows of the companies that were analysed to the end are flushed.
ScoringFailureCaught ==
    [][\A t \in Threads :
          /\ ScoringRaises(t) /\ run[t].kind \in BatchKinds
                => pc'[t] = "loop" /\ run'[t].i = run[t].i + 1
          /\ RunEnds(t) /\ run[t].kind \in BatchKinds
                        /\ lastResult'[t].outcome = "returned"
                => RowsFlushed(run[t].all_results, dataset')]_vars

\* the run reprocesses everything: run_full, or a run with force=True
ForceRun(r) == r.kind = "full" \/ r.force

\* the thread is about to score a document that can be scored
Scorable(t) ==
    /\ pc[t] = "scoring"
    /\ LET text == Transcripts(world, CurrentCode(t))[run[t].j].text
       IN text.words >= MinWords /\ ~text.raises

\* C15 Force run: in run_full and in a run with force=True no reference is
\* skipped for being in the ledger, whatever the ledger holds when the
\* reference is reached: its document is extracted, and scored into a row
\* when it has the minimum number of words.
C15_ForceRunIgnoresLedger ==
    [][\A t \in Threads :
          /\ pc[t] = "ref" /\ ForceRun(run[t]) /\ <<pc[t], run[t]>>' # <<pc[t], run[t]>>
                => pc'[t] = "scoring"
          /\ Scorable(t) /\ ForceRun(run[t])
                /\ <<pc[t], run[t]>>' # <<pc[t], run[t]>>
                => Len(run'[t].results) = Len(run[t].results) + 1]_vars

\* What holds of a run with force=True (analyze_company and
\* analyze_local_company): no reference is skipped.
ForceArgumentIgnoresLedger ==
    [][\A t \in Threads :
          /\ pc[t] = "ref" /\ run[t].force /\ <<pc[t], run[t]>>' # <<pc[t], run[t]>>
                => pc'[t] = "scoring"
          /\ Scorable(t) /\ run[t].force /\ <<pc[t], run[t]>>' # <<pc[t], run[t]>>
                => Len(run'[t].results) = Len(run[t].results) + 1]_vars


\* the thread is about to extract a document of which nothing or fewer
\* words than the minimum are extracted
TooShort(t) ==
    /\ pc[t] = "scoring"
    /\ Transcripts(world, CurrentCode(t))[run[t].j].text.words < MinWords

\* the log entry run_incremental and run_local_analysis append for an error
IsErrorEntry(entry) == entry[Len(entry)] = "Error"

\* the rows the step's save hands to the dataset: none when it saves nothing
FlushedNow == IF lastFlush' = lastFlush THEN 0 ELSE Len(lastFlush'.new_results)

\* the step enters the company in the run log as an error and goes on with
\* the next company of the batch
ItemLogged(t) ==
    /\ pc'[t] = "loop"
    /\ run'[t].i = run[t].i + 1
    /\ Len(processing_status'.logs) = Len(processing_status.logs) + 1
    /\ IsErrorEntry(processing_status'.logs[Len(processing_status'.logs)])

TenthCompanyDone(t) ==
    /\ pc[t] = "entity_done"
    /\ run[t].kind \in {"incremental", "full"}
    /\ run[t].i % SaveEvery = 0
    /\ pc'[t] = "loop"

\* C17 Flush cadence: in run_incremental, after every tenth company of the
\* batch the rows accumulated so far are in the durable dataset whenever
\* there are any (unless the write failed), and the final save flushes them
\* once more when the run returns.
C17_FlushCadence ==
    [][\A t \in Threads :
          /\ TenthCompanyDone(t) /\ run'[t].all_results # <<>> /\ ~run'[t].failed_flush
                => RowsFlushed(run'[t].all_results, dataset')
          /\ RunEnds(t) /\ run[t].kind \in {"incremental", "full"}
                        /\ lastResult'[t].outcome = "returned"
                => RowsFlushed(run[t].all_results, dataset')]_vars

\* What holds of the cadence: the rows accumulated are flushed after a tenth
\* company that has itself yielded rows, and at the end of the run.
FlushWhenTenthHasRows ==
    [][\A t \in Threads :
          /\ TenthCompanyDone(t) /\ run[t].results # <<>> /\ ~run'[t].failed_flush
                => RowsFlushed(run'[t].all_results, dataset')
          /\ RunEnds(t) /\ run[t].kind \in {"incremental", "full"}
                        /\ lastResult'[t].outcome = "returned"
                => RowsFlushed(run[t].all_results, dataset')]_vars


\* the ledger holds the (company, period) of the row
RowMarked(st, row) ==
    \E quarter \in AllQuarters :
        /\ quarter[1] = row.Month
        /\ YearValue(quarter[3]) = row.Year.value
        /\ is_processed(st, row.Company, quarter)

\* the thread appends a row to the results of the company in this step
RowBuilt(t) == Len(run'[t].results) = Len(run[t].results) + 1

\* C18 Mark-before-flush ordering: the step that builds a row marks the
\* ledger for the row's company and period, so that every row a save hands
\* to the dataset is already marked when the save is made; and the ledger
\* gets or refreshes a record only in a step that builds a row: a reference
\* that is skipped, too short or on which scoring raises marks nothing.
C18_MarkBeforeFlush ==
    [][/\ \A t \in Threads :
             RowBuilt(t) =>
                /\ RowMarked(state', run'[t].results[Len(run'[t].results)])
                /\ ~RowMarked(EmptyState, run'[t].results[Len(run'[t].results)])
                /\ lastFlush' = lastFlush /\ dataset' = dataset
       /\ lastFlush' # lastFlush =>
             \A n \in DOMAIN lastFlush'.new_results :
                RowMarked(state, lastFlush'.new_results[n])
       /\ state'.processed # state.processed /\ state'.processed # EmptyDict =>
             \E t \in Threads : RowBuilt(t)]_vars

\* A run has returned after it flushed a row whose period the ledger holds.
C18_Witness ==
    /\ lastResult[1].outcome = "returned"
    /\ lastResult[1].new_quarters > 0
    /\ lastFlush.new_results # <<>>
    /\ \A n \in DOMAIN lastFlush.new_results : RowMarked(state, lastFlush.new_results[n])
    /\ \E n \in DOMAIN dataset : RowMarked(state, dataset[n])


\* the step passes over the reference: no row, no mark, no log entry, no
\* outcome, and the thread is at the next reference of the same company or
\* at the end of its references
PassedOver(t) ==
    /\ run'[t].results = run[t].results
    /\ run'[t].built = run[t].built
    /\ state' = state
    /\ processing_status' = processing_status
    /\ response' = response /\ lastResult' = lastResult
    /\ run'[t].i = run[t].i
    /\ run'[t].j = run[t].j + 1
    /\ pc'[t] = IF run'[t].j <= Len(Transcripts(world, CurrentCode(t)))
                THEN "ref" ELSE "entity_done"

\* C19 Too-short documents: a reference of which nothing can be extracted or
\* fewer than 100 words are extracted yields no row, no ledger mark and no
\* exception: the ledger, the rows of the company and the run log are as
\* before, and the run is at the next reference of the same company.
C19_TooShortDocuments ==
    [][\A t \in Threads : TooShort(t) /\ pc'[t] # "scoring" => PassedOver(t)]_vars

\* C19 without the local extractor's uncaught exception: when the extractor
\* returns (a text, "" or None), a reference with fewer than 100 words is
\* passed over; extract_pdf_from_url always returns.
TooShortWhenExtractorReturns ==
    [][\A t \in Threads :
          /\ TooShort(t) /\ pc'[t] # "scoring"
          /\ \/ run[t].kind # "local"
             \/ Transcripts(world, CurrentCode(t))[run[t].j].text.words > 0
          => PassedOver(t)]_vars


(***************************************************************************)
(* The locator's output (SpecLocator).                                     *)
(***************************************************************************)
\* the references get_transcript_urls has returned
Returned == IF call.fn = "get_transcript_urls" /\ ret # None THEN ret[1] ELSE <<>>

\* the links of the page that a returned reference may stand for: transcript
\* links with its absolute location
LinksOf(transcript) ==
    {link \in {call.all_links[n] : n \in DOMAIN call.all_links} :
        /\ lower(link.text) = "transcript"
        /\ urljoin(link.href) = transcript.url}

\* a label or a date in the target gives the link a period
Resolvable(link) ==
    LabelPlaces(link.previous) # {} \/ DatePlaces(link.href, {"-", "/"}) # {}

\* the link has no label and the leftmost date of its target has month
\* digits that are not 01..12
UnknownMonth(link) ==
    /\ LabelPlaces(link.previous) = {}
    /\ DatePlaces(link.href, {"-", "/"}) # {}
    /\ MonthOf(link.href, Least(DatePlaces(link.href, {"-", "/"}))) = "Unknown"

YearRequested(transcript) ==
    /\ Len(transcript.year) = 4
    /\ \A n \in 1..4 : transcript.year[n] \in Digits
    /\ 1000 * DigitValue(transcript.year[1]) + 100 * DigitValue(transcript.year[2])
          + 10 * DigitValue(transcript.year[3]) + DigitValue(transcript.year[4])
             \in StartYear..EndYear

\* C20 as stated (SpecLocator): every reference returned has a month among
\* Jan..Dec and a year within the requested range, and stands for a link of
\* the page whose period can be resolved.
C20_LocatorOutputFilter ==
    \A n \in DOMAIN Returned :
        /\ Returned[n].month \in MonthNames
        /\ YearRequested(Returned[n])
        /\ \E link \in LinksOf(Returned[n]) : Resolvable(link)

\* C20 as amended (SpecLocator): every reference returned has a year within
\* the requested range and a month among Jan..Dec, or the month 'Unknown'
\* when it stands for a link without a label whose target date has month
\* digits that are not 01..12; it stands for a link with a label or a date
\* in its target, and a link with neither is never returned.
C20_LocatorOutputFilterOrUnknown ==
    \A n \in DOMAIN Returned :
        /\ YearRequested(Returned[n])
        /\ \/ Returned[n].month \in MonthNames
           \/ /\ Returned[n].month = "Unknown"
              /\ \E link \in LinksOf(Returned[n]) : UnknownMonth(link)
        /\ \E link \in LinksOf(Returned[n]) : Resolvable(link)
        /\ Returned[n].quarter = QuarterKey(Returned[n].month, Returned[n].year)

\* a link without a label whose target holds 2023-13-05 has been returned
\* with the month 'Unknown' and the year 2023
C20_Witness ==
    /\ Len(Returned) = 1
    /\ Returned[1].month = "Unknown"
    /\ Returned[1].year = <<"2", "0", "2", "3">>
    /\ \A link \in LinksOf(Returned[1]) : UnknownMonth(link)


(***************************************************************************)
(* The run status (SpecLive, SpecSeqLive).                                 *)
(***************************************************************************)
\* the thread is inside a run: past the assignment running = True and before
\* the finally block
InRun(t) == pc[t] \notin {"idle", "admitted"}

StatusIdle == ~processing_status.running /\ processing_status.mode = "idle"

\* C21 Run status life cycle: running is true in every state in which a
\* thread is inside a run, from the run's start until it ends, and every
\* run that has started is followed by a state with running false and the
\* mode idle, however the run ends.
C21_RunStatusLifeCycle ==
    /\ [](\A t \in Threads : InRun(t) => processing_status.running)
    /\ \A t \in Threads : InRun(t) ~> StatusIdle

\* C21 with one request at a time: the status is running exactly while the
\* run is executing, and every run that starts ends with the status idle.
RunStatusOneAtATime ==
    /\ InRun(1) <=> processing_status.running
    /\ ~InRun(1) => StatusIdle

RunStatusLifeCycleOneAtATime == []RunStatusOneAtATime /\ (InRun(1) ~> StatusIdle)

\* C21 in the threaded server, the part that holds: every run that has started
\* is followed by an idle status.
EveryRunEnds == \A t \in Threads : InRun(t) ~> StatusIdle


(***************************************************************************)
(* The chunker's windows (SpecChunker).                                    *)
(***************************************************************************)
\* C22 Chunk windows: for a text of n >= 1 words, the chunks _chunk_text
\* returns are word ranges of the text in text order, none empty and none
\* longer than W = int(max_tokens * 0.75), each starting exactly
\* O = int(0.1 * W) words before the end of the one before; the first starts
\* at the first word, the last ends at the last word, and every word of the
\* text is in a chunk.
C22_ChunkWindows ==
    (ChunkerReturned /\ call.text.words >= 1) =>
        LET W == (call.max_tokens * 3) \div 4
            O == W \div 10
            n == call.text.words
            chunks == ret[1]
        IN /\ Len(chunks) >= 1
           /\ \A k \in DOMAIN chunks :
                 /\ ~chunks[k].raw
                 /\ 0 <= chunks[k].start /\ chunks[k].start < chunks[k].end
                 /\ chunks[k].end <= n
                 /\ chunks[k].end - chunks[k].start <= W
           /\ \A k \in 1..(Len(chunks) - 1) :
                 /\ chunks[k].end - chunks[k + 1].start = O
                 /\ chunks[k].start < chunks[k + 1].start
                 /\ chunks[k].end < chunks[k + 1].end
           /\ chunks[1].start = 0
           /\ chunks[Len(chunks)].end = n
           /\ \A word \in 1..n :
                 \E k \in DOMAIN chunks : chunks[k].start < word /\ word <= chunks[k].end

\* the default budget, a text of one word more than two windows: three
\* chunks came back, the last of them shorter than a window
C22_Witness ==
    /\ ChunkerReturned
    /\ call.max_tokens = DefaultMaxTokens
    /\ call.text.words = 2 * 337 + 1
    /\ ret[1] = <<Chunk(0, 337), Chunk(304, 641), Chunk(608, 675)>>


\* C28 Chunker termination: every call of _chunk_text, whatever the text
\* (the empty one included) and the token budget max_tokens >= 1, returns,
\* and returns at least one chunk.
C28_ChunkerTermination ==
    (call.fn = "_chunk_text" /\ call.max_tokens >= 1)
        ~> (ChunkerReturned /\ Len(ret[1]) >= 1)

\* C28 for the budgets with a window of at least one word (max_tokens >= 2)
\* and for the texts without words: the call returns at least one chunk.
CalledWithWindow ==
    /\ call.fn = "_chunk_text"
    /\ (words_per_chunk(call.max_tokens) >= 1 \/ call.text.words = 0)

ReturnedChunks == ChunkerReturned /\ Len(ret[1]) >= 1

ChunkerTerminatesWithWindow == CalledWithWindow ~> ReturnedChunks



(***************************************************************************)
(* The durable dataset and the ledger after runs (SpecSeq, SpecBatch).     *)
(***************************************************************************)
\* C23 Dataset key uniqueness: after any sequence of flushes the dataset
\* holds at most one row per (entity, year, month), the year taken by its
\* value, also when one batch carries two rows for the same key.
C23_DatasetKeyUniqueness ==
    \A m, n \in DOMAIN dataset :
        PeriodKey(dataset[m]) = PeriodKey(dataset[n]) => m = n


\* the dataset ds holds a row for the ledger key
KeyHasRow(key, ds) ==
    \E m \in DOMAIN ds :
        /\ upper(ds[m].Company) = key[1]
        /\ ds[m].Month = key[2][1]
        /\ ds[m].Year.value = YearValue(key[2][3])

\* run_incremental (called by the handler or by run_full) returns success
IncrementalReturns(t) ==
    /\ RunEnds(t)
    /\ run[t].kind \in {"incremental", "full"}
    /\ lastResult'[t].outcome = "returned"

\* C24 Ledger and dataset agree at the end of a run: when run_incremental
\* returns success, every (company, period) the ledger was marked for during
\* the run has a row in the durable dataset.
C24_LedgerDatasetAgree ==
    [][\A t \in Threads :
          IncrementalReturns(t) =>
             \A key \in lastResult'[t].new_keys : KeyHasRow(key, dataset')]_vars

\* C24 for the runs in which no company was entered in the log as an error:
\* every period marked during the run has a row in the dataset.
LedgerDatasetAgreeWithoutErrors ==
    [][\A t \in Threads :
          (/\ IncrementalReturns(t)
           /\ \A n \in DOMAIN processing_status.logs :
                  ~IsErrorEntry(processing_status.logs[n]))
             => \A key \in lastResult'[t].new_keys : KeyHasRow(key, dataset')]_vars


\* the thread is about to build a row and mark its period
MarksPeriod(t) == Scorable(t) /\ RowBuilt(t)

\* C25 One ledger key per period across strategies: when either path marks
\* the ledger for a company, month and year, the ledger test of the remote
\* path (with the key of get_transcript_urls) and the ledger test of the
\* local path (with the key of get_local_transcripts) both report the period
\* as already processed.
C25_OneLedgerKeyPerPeriod ==
    [][\A t \in Threads :
          MarksPeriod(t) =>
             LET transcript == Transcripts(world, CurrentCode(t))[run[t].j]
                 month == transcript.month
                 year == transcript.year
             IN /\ is_processed(state', CurrentCode(t), QuarterKey(month, year))
                /\ is_processed(state', CurrentCode(t), LocalQuarterKey(month, year))]_vars

\* What holds of the keys: each path finds again the periods it marked itself.
OwnLedgerKeyPerPeriod ==
    [][\A t \in Threads :
          MarksPeriod(t) =>
             is_processed(state', CurrentCode(t),
                          quarter_of(run[t].kind,
                                     Transcripts(world, CurrentCode(t))[run[t].j]))]_vars


(***************************************************************************)
(* What a status poll reads (SpecProgress, SpecSeq).                       *)
(***************************************************************************)
\* C26 Progress bound: in every state in which running is true,
\* 0 <= progress <= total holds of the values in processing_status, also
\* when the runs before had company lists of other lengths.
C26_ProgressBound ==
    processing_status.running =>
        /\ 0 <= processing_status.progress
        /\ processing_status.progress <= processing_status.total

\* C26 while every run has the same company list
ProgressBoundSameList ==
    processing_status.running =>
        /\ 0 <= processing_status.progress
        /\ processing_status.progress <= processing_status.total
        /\ processing_status.total \in {0, Len(batch)}


(***************************************************************************)
(* The run markers of the ledger (SpecSeq).                                *)
(***************************************************************************)
\* run_full returns success
FullRunReturns(t) ==
    RunEnds(t) /\ run[t].kind = "full" /\ lastResult'[t].outcome = "returned"

\* the record of the run that ends in this step: its time and its stats
RunRecord(t) ==
    Some([timestamp |-> clock,
          stats |-> [companies_processed |-> lastResult'[t].companies_processed,
                     new_quarters |-> lastResult'[t].new_quarters]])

\* C27 A full run is recorded as a full run: when run_full returns success,
\* the ledger's last_full_run is not None and holds the time and the stats
\* of that run.
C27_FullRunRecorded ==
    [][\A t \in Threads :
          FullRunReturns(t) =>
             /\ state'.last_full_run # None
             /\ state'.last_full_run = RunRecord(t)]_vars

\* What holds of a full run: it is recorded as the last incremental run, and
\* last_full_run is None after it.
FullRunRecordedAsIncremental ==
    [][\A t \in Threads :
          FullRunReturns(t) =>
             /\ state'.last_incremental_run = RunRecord(t)
             /\ state'.last_full_run = None]_vars


(***************************************************************************)
(* The fallback scorer's distribution (SpecScorer).                        *)
(***************************************************************************)
\* _analyze_text_textblob has returned (analyze_text_finbert without the model)
FallbackReturned == call.fn = "analyze_text_finbert" /\ ~call.use_finbert /\ ret # None

Probability(x) == 0 <= x /\ x <= One

\* C29 Fallback distribution is a probability distribution: for every
\* polarity in [-1, 1], each of positive, negative and neutral that the
\* fallback scorer returns lies in [0, 1].
C29_FallbackDistribution ==
    FallbackReturned =>
        /\ Probability(ret[1].positive)
        /\ Probability(ret[1].negative)
        /\ Probability(ret[1].neutral)

\* What holds of the fallback: positive and negative lie in [0, 1], and
\* neutral does when the polarity lies in [-0.8, 0.8]; beyond it neutral is
\* negative, down to -0.1.
FallbackDistributionUpTo08 ==
    FallbackReturned =>
        /\ Probability(ret[1].positive)
        /\ Probability(ret[1].negative)
        /\ ret[1].neutral >= -(One \div 10)
        /\ abs(call.polarity) <= 800000 => Probability(ret[1].neutral)


(***************************************************************************)
(* The catalog's indices and the custom entries (SpecCatalog).             *)
(***************************************************************************)
\* the lookup by the exchange code returns an entry of source 'custom'
CustomByNse(mgr, code) ==
    LET found == get_company_by_nse(mgr, code)
    IN found # None /\ found[1].source = "custom"

CustomByBse(mgr, code) ==
    LET found == get_company_by_bse(mgr, code)
    IN found # None /\ found[1].source = "custom"

\* custom_companies holds an entry with the code; NSE codes are compared
\* without regard to case
HoldsNse(mgr, code) ==
    /\ code # ""
    /\ \E n \in DOMAIN mgr.custom_companies :
          upper(mgr.custom_companies[n].nse_code) = upper(code)

HoldsBse(mgr, code) ==
    /\ code # ""
    /\ \E n \in DOMAIN mgr.custom_companies : mgr.custom_companies[n].bse_code = code

\* the codes looked up: those of custom entries, of static entries, of none
ProbeCodes == RemoveCodes \cup {"tcs", "INFY", "532540"}

IndexMatchesStorage ==
    \A code \in ProbeCodes :
        /\ CustomByNse(company_mgr, code) <=> HoldsNse(company_mgr, code)
        /\ CustomByBse(company_mgr, code) <=> HoldsBse(company_mgr, code)

\* the entry a successful add has just appended is what its codes resolve to
AddedResolvable ==
    (call'.fn = "add_custom_company" /\ ret'[1].success /\ company_mgr' # company_mgr) =>
        LET added == CustomInfo(company_mgr'.custom_companies[
                                    Len(company_mgr'.custom_companies)])
        IN /\ truthy(call'.nse_code)
                 => get_company_by_nse(company_mgr', call'.nse_code[1]) = Some(added)
           /\ truthy(call'.bse_code)
                 => get_company_by_bse(company_mgr', call'.bse_code[1]) = Some(added)

\* after a successful remove the code resolves to no custom entry and an
\* add of the code succeeds again
RemovedGone ==
    (call'.fn = "remove_custom_company" /\ ret'[1].success /\ call'.nse_code # "") =>
        /\ ~CustomByNse(company_mgr', call'.nse_code)
        /\ ~HoldsNse(company_mgr', call'.nse_code)
        /\ add_custom_company(company_mgr', "Acme", Some(call'.nse_code), None,
                              "Unknown", 0, FALSE, FALSE).result.success

\* C30 Catalog index matches custom storage: after any sequence of adds and
\* removes from the empty custom store, a lookup by an NSE or a BSE code
\* returns an entry of source custom exactly when custom_companies holds an
\* entry with that code; an entry added with success is resolved under its
\* codes at once, a removed one is no longer resolved as custom, and its
\* code can be added again.
C30_IndexMatchesStorage ==
    []IndexMatchesStorage /\ [][AddedResolvable /\ RemovedGone]_vars

\* a custom entry has been removed while another one stays, and the removed
\* code resolves to nothing
C30_Witness ==
    /\ call.fn = "remove_custom_company"
    /\ ret[1].success
    /\ call.nse_code = "acme"
    /\ get_company_by_nse(company_mgr, "ACME") = None
    /\ Len(company_mgr.custom_companies) = 1
    /\ CustomByBse(company_mgr, "999")

====
